---- MODULE Spec2Model ----
(***************************************************************************)
(* Veritas Chain ledger engine: blocks, Merkle commitment and proofs,      *)
(* signatures, proof of authority and the Badger-backed chain.             *)
(*                                                                         *)
(* Byte strings are sequences of atoms <<tag, n, payload>>, payload again  *)
(* a byte string.  SHA-256 is a free constructor (collision free), hex and *)
(* gob encodings are constructors with their own decoders, a signature is  *)
(* the pair of big-endian encodings of r and s with their byte lengths.    *)
(***************************************************************************)
EXTENDS Integers, Sequences, FiniteSets, TLC

\* ------------------------------------------------------------------ bounds
MaxCert == 2

MaxLeaves == 3

MaxProofLen == 1

MaxBlocks == 3

MaxTime == 1

MaxTamper == 1

MaxKeys == 3
MaxListed == 11

\* ------------------------------------------------------- program constants
DigestSize == 32

HexHalf == 32

HexDigestLen == 64

Int64Size == 8

ClockSkew == 3600
ListLimit == 10

\* ------------------------------------------------------------ byte strings
Empty == <<>>

Atom(tag, n, payload) == <<tag, n, payload>>

AtomLen(a) ==
  CASE a[1] = "h"  -> DigestSize
    [] a[1] = "xl" -> HexHalf
    [] a[1] = "xr" -> HexHalf
    [] a[1] = "z"  -> HexHalf
    [] a[1] = "i"  -> Int64Size
    [] a[1] = "r"  -> a[2]
    [] a[1] = "s"  -> a[2]
    [] a[1] = "lh" -> 2
    [] OTHER       -> 8

RECURSIVE ByteLen(_)
ByteLen(b) == IF b = <<>> THEN 0 ELSE AtomLen(Head(b)) + ByteLen(Tail(b))

RECURSIVE Join(_)
Join(parts) == IF parts = <<>> THEN <<>> ELSE Head(parts) \o Join(Tail(parts))

CertID(i) == << Atom("c", i, Empty) >>

Sha256(data) == << Atom("h", 0, data) >>

ToHex(num) == << Atom("i", num, Empty) >>

RECURSIVE EncodeToString(_)
EncodeToString(b) ==
  IF b = <<>> THEN <<>>
  ELSE << Atom("xl", 0, <<Head(b)>>), Atom("xr", 0, <<Head(b)>>) >> \o EncodeToString(Tail(b))

IsHexString(s) == \A i \in 1..Len(s) : s[i][1] \in {"xl", "xr"}

RECURSIVE DecodeString(_)
DecodeString(s) ==
  IF s = <<>> THEN <<>>
  ELSE IF Len(s) >= 2 /\ s[1][1] = "xl" /\ s[2][1] = "xr" /\ s[1][3] = s[2][3]
       THEN s[1][3] \o DecodeString(SubSeq(s, 3, Len(s)))
       ELSE << Atom("u", 0, <<Head(s)>>) >> \o DecodeString(Tail(s))

\* ------------------------------------------------------------- Merkle tree
\* a node constructor that stores the leaf value unhashed
NewMerkleNode_rawLeaf(left, right, data, isLeaf) ==
  IF isLeaf THEN data ELSE Sha256(left \o right)

NewMerkleNode(left, right, data, isLeaf) ==
  IF isLeaf THEN Sha256(data) ELSE Sha256(left \o right)

RECURSIVE PairNodes(_)
PairNodes(nodes) ==
  IF nodes = <<>> THEN <<>>
  ELSE IF Len(nodes) = 1
       THEN << NewMerkleNode(nodes[1], nodes[1], Empty, FALSE) >>
       ELSE << NewMerkleNode(nodes[1], nodes[2], Empty, FALSE) >>
            \o PairNodes(SubSeq(nodes, 3, Len(nodes)))

RECURSIVE ReduceNodes(_)
ReduceNodes(nodes) == IF Len(nodes) > 1 THEN ReduceNodes(PairNodes(nodes)) ELSE nodes[1]

MerkleLeaves(certificateIDs) ==
  LET ids == IF Len(certificateIDs) % 2 # 0
             THEN Append(certificateIDs, certificateIDs[Len(certificateIDs)])
             ELSE certificateIDs
  IN [i \in 1..Len(ids) |-> NewMerkleNode(Empty, Empty, ids[i], TRUE)]

NewMerkleTreePanics(certificateIDs) == Len(certificateIDs) = 0

NewMerkleTree(certificateIDs) == ReduceNodes(MerkleLeaves(certificateIDs))

RECURSIVE TreeLevels(_)
TreeLevels(nodes) ==
  IF Len(nodes) > 1 THEN <<nodes>> \o TreeLevels(PairNodes(nodes)) ELSE <<nodes>>

TreeNodes(certificateIDs) ==
  LET lv == TreeLevels(MerkleLeaves(certificateIDs))
  IN UNION { { lv[i][j] : j \in 1..Len(lv[i]) } : i \in 1..Len(lv) }

RECURSIVE GenerateProofLoop(_, _, _, _)
GenerateProofLoop(level, idx, siblings, dirs) ==
  IF Len(level) <= 1 THEN [Siblings |-> siblings, Directions |-> dirs]
  ELSE LET lv == IF Len(level) % 2 = 1 THEN Append(level, level[Len(level)]) ELSE level
           i == 2 * (idx \div 2)
           left == lv[i + 1]
           right == lv[i + 2]
           next == [p \in 1..(Len(lv) \div 2) |-> Sha256(lv[2 * p - 1] \o lv[2 * p])]
       IN IF i = idx
          THEN GenerateProofLoop(next, idx \div 2, Append(siblings, right), Append(dirs, TRUE))
          ELSE GenerateProofLoop(next, idx \div 2, Append(siblings, left), Append(dirs, FALSE))

GenerateProof(leaves, leafIndex) ==
  IF Len(leaves) = 0 \/ leafIndex < 0 \/ leafIndex >= Len(leaves)
  THEN [Siblings |-> <<>>, Directions |-> <<>>]
  ELSE GenerateProofLoop(leaves, leafIndex, <<>>, <<>>)

VerifyProofPanics(proof) == Len(proof.Directions) < Len(proof.Siblings)

RECURSIVE VerifyProofLoop(_, _, _)
VerifyProofLoop(curr, proof, i) ==
  IF i > Len(proof.Siblings) THEN curr
  ELSE IF proof.Directions[i]
       THEN VerifyProofLoop(Sha256(curr \o proof.Siblings[i]), proof, i + 1)
       ELSE VerifyProofLoop(Sha256(proof.Siblings[i] \o curr), proof, i + 1)

VerifyProof(leafData, proof, root) == VerifyProofLoop(Sha256(leafData), proof, 1) = root

\* ------------------------------------------------------- keys and signers
PubKey(k) == [Curve |-> "P-256", X |-> 2 * k, Y |-> 2 * k + 1]

PublicKeysEqual(key1, key2) ==
  key1.Curve = key2.Curve /\ key1.X = key2.X /\ key1.Y = key2.Y

SignerPublicKey(signer) == PubKey(signer)

SignerAddress(signer) == << Atom("a", signer, Empty) >>

SigShapes == { <<32, 32>>, <<31, 31>>, <<31, 32>>, <<30, 32>> }

SigPayload(k, nonce, message) == << Atom("k", k, Empty), Atom("n", nonce, Empty) >> \o message

SignerSign(signer, message, nonce, shape) ==
  << Atom("r", shape[1], SigPayload(signer, nonce, message)),
     Atom("s", shape[2], SigPayload(signer, nonce, message)) >>

\* the bytes [from, to) of a byte string, or Garbage when a cut falls inside an atom
Garbage == << Atom("g", 0, Empty) >>

RECURSIVE TakeBytes(_, _)
TakeBytes(b, n) ==
  IF n = 0 THEN <<>>
  ELSE IF b = <<>> \/ AtomLen(Head(b)) > n THEN Garbage
  ELSE LET rest == TakeBytes(Tail(b), n - AtomLen(Head(b)))
       IN IF rest = Garbage THEN Garbage ELSE <<Head(b)>> \o rest

RECURSIVE DropBytes(_, _)
DropBytes(b, n) ==
  IF n = 0 THEN b
  ELSE IF b = <<>> \/ AtomLen(Head(b)) > n THEN Garbage
  ELSE DropBytes(Tail(b), n - AtomLen(Head(b)))

\* ecdsa.Verify: r and s are the two numbers one signing of hash by key's owner produced
EcdsaVerify(publicKey, hash, rBytes, sBytes) ==
  /\ Len(rBytes) = 1 /\ Len(sBytes) = 1
  /\ rBytes[1][1] = "r" /\ sBytes[1][1] = "s"
  /\ rBytes[1][3] = sBytes[1][3]
  /\ Len(rBytes[1][3]) >= 2
  /\ rBytes[1][3][1][1] = "k"
  /\ PublicKeysEqual(PubKey(rBytes[1][3][1][2]), publicKey)
  /\ SubSeq(rBytes[1][3], 3, Len(rBytes[1][3])) = hash

\* ------------------------------------------------------------------ blocks
NoBlock ==
  [Timestamp |-> 0, Hash |-> Empty, PrevHash |-> Empty, Height |-> 0 - 1,
   CertificateHashes |-> <<>>, Signature |-> Empty, MerkleRoot |-> Empty,
   UniversityAddress |-> Empty]

hashCertificateIDs(certificateIDs) ==
  [i \in 1..Len(certificateIDs) |-> EncodeToString(Sha256(certificateIDs[i]))]

HashCertificates(b) == Join(b.CertificateHashes)

CalculateHash_noSignature(b) ==
  Sha256(Join(<< b.PrevHash, HashCertificates(b), b.MerkleRoot,
                 ToHex(b.Timestamp), ToHex(b.Height) >>))

CalculateHash(b) ==
  Sha256(Join(<< b.PrevHash, HashCertificates(b), b.MerkleRoot,
                 ToHex(b.Timestamp), ToHex(b.Height), b.Signature >>))

CalculateHashForSigning(b) ==
  Sha256(Join(<< b.PrevHash, HashCertificates(b), b.MerkleRoot,
                 ToHex(b.Timestamp), ToHex(b.Height) >>))

\* Verify without the test for an odd signature length
BlockVerify_noParity(b, publicKey) ==
  IF ByteLen(b.Signature) = 0 THEN FALSE
  ELSE LET halfLen == ByteLen(b.Signature) \div 2
       IN EcdsaVerify(publicKey, CalculateHashForSigning(b),
                      TakeBytes(b.Signature, halfLen), DropBytes(b.Signature, halfLen))

BlockVerify(b, publicKey) ==
  IF ByteLen(b.Signature) = 0 THEN FALSE
  ELSE IF ByteLen(b.Signature) % 2 # 0 THEN FALSE
  ELSE LET halfLen == ByteLen(b.Signature) \div 2
       IN EcdsaVerify(publicKey, CalculateHashForSigning(b),
                      TakeBytes(b.Signature, halfLen), DropBytes(b.Signature, halfLen))

\* a lookup that compares the first stored hash only
VerifyCertificate_first(b, certificateID) ==
  /\ Len(b.CertificateHashes) > 0
  /\ b.CertificateHashes[1] = EncodeToString(Sha256(certificateID))

VerifyCertificate(b, certificateID) ==
  \E i \in 1..Len(b.CertificateHashes) :
     b.CertificateHashes[i] = EncodeToString(Sha256(certificateID))

BlockValidate_noHash(b, now) ==
  IF b.Height < 0 THEN "invalid block height"
  ELSE IF b.Timestamp > now + ClockSkew THEN "block timestamp is too far in the future"
  ELSE IF \E i \in 1..Len(b.CertificateHashes) :
             /\ \A j \in 1..(i - 1) : ByteLen(b.CertificateHashes[j]) = HexDigestLen
                                      /\ IsHexString(b.CertificateHashes[j])
             /\ ByteLen(b.CertificateHashes[i]) # HexDigestLen
       THEN "invalid certificate hash: expected 64 hex chars"
  ELSE IF \E i \in 1..Len(b.CertificateHashes) : ~IsHexString(b.CertificateHashes[i])
       THEN "invalid certificate hash: not valid hex"
  ELSE "nil"

\* Block.Validate: "nil" or the first violated check
BlockValidate(b, now) ==
  IF b.Hash # CalculateHash(b) THEN "invalid block hash"
  ELSE IF b.Height < 0 THEN "invalid block height"
  ELSE IF b.Timestamp > now + ClockSkew THEN "block timestamp is too far in the future"
  ELSE IF \E i \in 1..Len(b.CertificateHashes) :
             /\ \A j \in 1..(i - 1) : ByteLen(b.CertificateHashes[j]) = HexDigestLen
                                      /\ IsHexString(b.CertificateHashes[j])
             /\ ByteLen(b.CertificateHashes[i]) # HexDigestLen
       THEN "invalid certificate hash: expected 64 hex chars"
  ELSE IF \E i \in 1..Len(b.CertificateHashes) : ~IsHexString(b.CertificateHashes[i])
       THEN "invalid certificate hash: not valid hex"
  ELSE "nil"

LastIndexOf(hashes, target) ==
  LET hits == { i \in 1..Len(hashes) : hashes[i] = target }
  IN IF hits = {} THEN 0 - 1 ELSE (CHOOSE i \in hits : \A j \in hits : j <= i) - 1

NoProof == [Siblings |-> <<>>, Directions |-> <<>>]

GenerateCertificateProof(b, certID) ==
  IF Len(b.CertificateHashes) = 0 \/ Len(b.MerkleRoot) = 0
  THEN [proof |-> NoProof, found |-> FALSE]
  ELSE IF \E i \in 1..Len(b.CertificateHashes) : ~IsHexString(b.CertificateHashes[i])
  THEN [proof |-> NoProof, found |-> FALSE]
  ELSE LET leaves == [i \in 1..Len(b.CertificateHashes) |-> DecodeString(b.CertificateHashes[i])]
           idx == LastIndexOf(b.CertificateHashes, EncodeToString(Sha256(certID)))
       IN IF idx = 0 - 1 THEN [proof |-> NoProof, found |-> FALSE]
          ELSE [proof |-> GenerateProof(leaves, idx), found |-> TRUE]

VerifyCertificateWithProof(b, certID, proof) == VerifyProof(certID, proof, b.MerkleRoot)

\* ------------------------------------------------------ proof of authority
VARIABLES UniversityIdentities, AuthorizedUniversities, runChecksAuthority

NilIdentities == {0 - 1}

UniversityNames == {"harvard", "mit"}

\* a check that accepts the key of every identity the identity system holds
IsAuthorizedUniversity_anyIdentity(publicKey) ==
  IF UniversityIdentities = NilIdentities THEN FALSE
  ELSE \E k \in UniversityIdentities : PublicKeysEqual(publicKey, PubKey(k))

IsAuthorizedUniversity(publicKey) ==
  IF UniversityIdentities = NilIdentities THEN FALSE
  ELSE \E name \in DOMAIN AuthorizedUniversities :
          /\ AuthorizedUniversities[name] # Empty
          /\ \E k \in UniversityIdentities :
                /\ SignerAddress(k) = AuthorizedUniversities[name]
                /\ PublicKeysEqual(publicKey, PubKey(k))

\* ProofOfAuthority.Run of proof.go when runChecksAuthority, of the placeholder otherwise
ProofOfAuthorityRun(b, publicKey) ==
  IF runChecksAuthority /\ ~IsAuthorizedUniversity(publicKey)
  THEN "university public key is not authorized"
  ELSE IF ~BlockVerify(b, publicKey) THEN "block signature verification failed"
  ELSE "nil"

\* NewBlock that returns the signed block with its Hash field left empty
NewBlock_noHash(certificateIDs, prevHash, height, signer, now, nonce, shape) ==
  IF NewMerkleTreePanics(certificateIDs)
  THEN [panic |-> TRUE, err |-> "No certificate IDs provided", block |-> NoBlock]
  ELSE LET unsigned == [Timestamp |-> now, Hash |-> Empty, PrevHash |-> prevHash,
                        Height |-> height,
                        CertificateHashes |-> hashCertificateIDs(certificateIDs),
                        Signature |-> Empty,
                        MerkleRoot |-> NewMerkleTree(certificateIDs),
                        UniversityAddress |-> SignerAddress(signer)]
           signed == [unsigned EXCEPT !.Signature =
                         SignerSign(signer, CalculateHashForSigning(unsigned), nonce, shape)]
           err == ProofOfAuthorityRun(signed, SignerPublicKey(signer))
       IN IF err # "nil" THEN [panic |-> TRUE, err |-> err, block |-> NoBlock]
          ELSE [panic |-> FALSE, err |-> "nil", block |-> signed]

\* NewBlock: the block, or the panic that log.Panic raises instead of returning
NewBlock(certificateIDs, prevHash, height, signer, now, nonce, shape) ==
  IF NewMerkleTreePanics(certificateIDs)
  THEN [panic |-> TRUE, err |-> "No certificate IDs provided", block |-> NoBlock]
  ELSE LET unsigned == [Timestamp |-> now, Hash |-> Empty, PrevHash |-> prevHash,
                        Height |-> height,
                        CertificateHashes |-> hashCertificateIDs(certificateIDs),
                        Signature |-> Empty,
                        MerkleRoot |-> NewMerkleTree(certificateIDs),
                        UniversityAddress |-> SignerAddress(signer)]
           signed == [unsigned EXCEPT !.Signature =
                         SignerSign(signer, CalculateHashForSigning(unsigned), nonce, shape)]
           err == ProofOfAuthorityRun(signed, SignerPublicKey(signer))
       IN IF err # "nil" THEN [panic |-> TRUE, err |-> err, block |-> NoBlock]
          ELSE [panic |-> FALSE, err |-> "nil",
                block |-> [signed EXCEPT !.Hash = CalculateHash(signed)]]

Genesis(signer, now, nonce, shape) == NewBlock(<<>>, Empty, 0, signer, now, nonce, shape)

\* ------------------------------------------------------------- the store
LhKey == << Atom("lh", 0, Empty) >>

Serialize(b) == [gob |-> b]

IsGob(val) == "gob" \in DOMAIN val

Deserialize(val) == val.gob

RawValue(bytes) == [raw |-> bytes]

EmptyDB == [key \in {} |-> RawValue(Empty)]

TxnSet(store, key, val) ==
  [x \in (DOMAIN store) \cup {key} |-> IF x = key THEN val ELSE store[x]]

BlockKeys(store) == (DOMAIN store) \ {LhKey}

\* a database directory written by an earlier run: the tip key and one genesis block with
\* the fields NewBlock gives a block without certificates, its MerkleRoot empty
StoredGenesis ==
  LET unsigned == [Timestamp |-> 0, Hash |-> Empty, PrevHash |-> Empty, Height |-> 0,
                   CertificateHashes |-> <<>>, Signature |-> Empty, MerkleRoot |-> Empty,
                   UniversityAddress |-> SignerAddress(1)]
      signed == [unsigned EXCEPT !.Signature =
                    SignerSign(1, CalculateHashForSigning(unsigned), 0, <<32, 32>>)]
  IN [signed EXCEPT !.Hash = CalculateHash(signed)]

StoredChain ==
  TxnSet(TxnSet(EmptyDB, StoredGenesis.Hash, Serialize(StoredGenesis)),
         LhKey, RawValue(StoredGenesis.Hash))

\* ------------------------------------------------- ValidateChain, GetStats
NoError == [kind |-> "nil", msg |-> "nil", index |-> 0 - 1]

ChainError(msg, index) == [kind |-> "error", msg |-> msg, index |-> index]

RECURSIVE LoadChain(_, _, _, _)
LoadChain(store, currentHash, blocks, fuel) ==
  IF fuel = 0 THEN [kind |-> "diverges", blocks |-> blocks]
  ELSE IF currentHash \notin DOMAIN store THEN [kind |-> "error", blocks |-> blocks]
  ELSE IF ~IsGob(store[currentHash]) THEN [kind |-> "panic", blocks |-> blocks]
  ELSE LET block == Deserialize(store[currentHash])
       IN IF Len(block.PrevHash) = 0
          THEN [kind |-> "ok", blocks |-> <<block>> \o blocks]
          ELSE LoadChain(store, block.PrevHash, <<block>> \o blocks, fuel - 1)

\* the checks of one iteration of the loop over blocks[1:]
CheckBlock_noOrder(block, prevBlock, i, now) ==
  IF BlockValidate(block, now) # "nil" THEN ChainError("block validation failed", i)
  ELSE IF block.Height # i THEN ChainError("block has incorrect height", i)
  ELSE IF block.PrevHash # prevBlock.Hash THEN ChainError("block has incorrect PrevHash", i)
  ELSE NoError

CheckBlock(block, prevBlock, i, now) ==
  IF BlockValidate(block, now) # "nil" THEN ChainError("block validation failed", i)
  ELSE IF block.Height # i THEN ChainError("block has incorrect height", i)
  ELSE IF block.PrevHash # prevBlock.Hash THEN ChainError("block has incorrect PrevHash", i)
  ELSE IF block.Timestamp < prevBlock.Timestamp
       THEN ChainError("block timestamp is before previous block timestamp", i)
  ELSE NoError

RECURSIVE CheckBlocks(_, _, _)
CheckBlocks(blocks, i, now) ==
  IF i >= Len(blocks) THEN NoError
  ELSE LET err == CheckBlock(blocks[i + 1], blocks[i], i, now)
       IN IF err # NoError THEN err ELSE CheckBlocks(blocks, i + 1, now)

\* ValidateChain whose loop reports the failing block with the highest index
ValidateChain_newestFirst(store, startHash, endHash, now) ==
  IF Len(startHash) = 0 THEN ChainError("blockchain is empty", 0 - 1)
  ELSE LET ld == LoadChain(store, startHash, <<>>, Cardinality(DOMAIN store) + 1)
       IN IF ld.kind = "error" THEN ChainError("failed to load block", 0 - 1)
          ELSE IF ld.kind # "ok" THEN [kind |-> ld.kind, msg |-> ld.kind, index |-> 0 - 1]
          ELSE LET blocks == ld.blocks
                   genesis == blocks[1]
                   bad == { i \in 1..(Len(blocks) - 1) :
                              CheckBlock(blocks[i + 1], blocks[i], i, now) # NoError }
               IN IF genesis.Height # 0
                  THEN ChainError("first block must be genesis block with height 0", 0 - 1)
                  ELSE IF Len(genesis.PrevHash) # 0
                  THEN ChainError("genesis block should have empty PrevHash", 0 - 1)
                  ELSE IF BlockValidate(genesis, now) # "nil"
                  THEN ChainError("genesis block validation failed", 0 - 1)
                  ELSE IF bad # {}
                  THEN LET i == CHOOSE x \in bad : \A y \in bad : y <= x
                       IN CheckBlock(blocks[i + 1], blocks[i], i, now)
                  ELSE IF endHash # blocks[Len(blocks)].Hash
                  THEN ChainError("LastHash mismatch", 0 - 1)
                  ELSE NoError

\* startHash is bc.LastHash as read when the walk starts, endHash as read by the last check
ValidateChain(store, startHash, endHash, now) ==
  IF Len(startHash) = 0 THEN ChainError("blockchain is empty", 0 - 1)
  ELSE LET ld == LoadChain(store, startHash, <<>>, Cardinality(DOMAIN store) + 1)
       IN IF ld.kind = "error" THEN ChainError("failed to load block", 0 - 1)
          ELSE IF ld.kind # "ok" THEN [kind |-> ld.kind, msg |-> ld.kind, index |-> 0 - 1]
          ELSE LET blocks == ld.blocks
                   genesis == blocks[1]
               IN IF genesis.Height # 0
                  THEN ChainError("first block must be genesis block with height 0", 0 - 1)
                  ELSE IF Len(genesis.PrevHash) # 0
                  THEN ChainError("genesis block should have empty PrevHash", 0 - 1)
                  ELSE IF BlockValidate(genesis, now) # "nil"
                  THEN ChainError("genesis block validation failed", 0 - 1)
                  ELSE LET rest == CheckBlocks(blocks, 1, now)
                       IN IF rest.kind # "nil" THEN rest
                          ELSE IF endHash # blocks[Len(blocks)].Hash
                          THEN ChainError("LastHash mismatch", 0 - 1)
                          ELSE NoError

NoStats == [kind |-> "none", BlockCount |-> 0, CertificateCount |-> 0]

\* Iterator and Next, driven by the loop of GetStats
RECURSIVE GetStatsLoop(_, _, _, _, _)
GetStatsLoop(store, CurrentHash, blockCount, certificateCount, fuel) ==
  IF fuel = 0
  THEN [kind |-> "diverges", BlockCount |-> blockCount, CertificateCount |-> certificateCount]
  ELSE IF CurrentHash \notin DOMAIN store \/ ~IsGob(store[CurrentHash])
  THEN [kind |-> "panic", BlockCount |-> blockCount, CertificateCount |-> certificateCount]
  ELSE LET block == Deserialize(store[CurrentHash])
       IN IF Len(block.PrevHash) = 0
          THEN [kind |-> "ok", BlockCount |-> blockCount + 1,
                CertificateCount |-> certificateCount + Len(block.CertificateHashes)]
          ELSE GetStatsLoop(store, block.PrevHash, blockCount + 1,
                            certificateCount + Len(block.CertificateHashes), fuel - 1)

GetStats(store, lastHash) ==
  GetStatsLoop(store, lastHash, 0, 0, Cardinality(DOMAIN store) + 1)

\* --------------------------------------------------------------- the chain
VARIABLES db, manifest, handle, LastHash, now, obs, pc, call, tampers, m

vars == <<UniversityIdentities, AuthorizedUniversities, runChecksAuthority,
          db, manifest, handle, LastHash, now, obs, pc, call, tampers, m>>

registryVars == <<UniversityIdentities, AuthorizedUniversities, runChecksAuthority>>

Requests == {1, 2}

Signers == {0, 1}

IdLists(n) == UNION { [1..k -> { CertID(i) : i \in 1..MaxCert }] : k \in 0..n }

\* the credential lists and the signature byte lengths appends are tried with
AddLists == { <<>>, <<CertID(2), CertID(1)>> }

AddShapes == { <<32, 32>>, <<31, 32>> }

\* what the last operation was given and what it returned
NoObs ==
  [op |-> "none", outcome |-> "none", fresh |-> FALSE, err |-> NoError, stats |-> NoStats,
   msg |-> "nil", ids |-> <<>>, signer |-> 0, lastHash |-> Empty, prevHeight |-> 0 - 1,
   block |-> NoBlock]

Did(op, outcome) == [NoObs EXCEPT !.op = op, !.outcome = outcome]

NoCall ==
  [outcome |-> "none", msg |-> "nil", ids |-> <<>>, signer |-> 0, lastHash |-> Empty,
   prevHeight |-> 0 - 1, block |-> NoBlock]

NoMerkle ==
  [stage |-> "none", ids |-> <<>>, block |-> NoBlock, leaf |-> Empty,
   proof |-> NoProof, found |-> FALSE, result |-> FALSE]

\* no identity created yet, under either Run; or harvard created, under the Run that
\* consults the registry
InitRegistry ==
  \/ /\ runChecksAuthority \in BOOLEAN
     /\ UniversityIdentities = NilIdentities
     /\ AuthorizedUniversities = [name \in UniversityNames |-> Empty]
  \/ /\ runChecksAuthority = TRUE
     /\ UniversityIdentities = {1}
     /\ AuthorizedUniversities =
          [name \in UniversityNames |-> IF name = "harvard" THEN SignerAddress(1) ELSE Empty]

InitChain ==
  /\ db \in {EmptyDB, StoredChain}
  /\ manifest = (db # EmptyDB)
  /\ handle = "closed"
  /\ LastHash = Empty
  /\ now = 0
  /\ obs = NoObs
  /\ pc = [c \in Requests |-> "idle"]
  /\ call = [c \in Requests |-> NoCall]
  /\ tampers = <<>>

Init == InitRegistry /\ InitChain /\ m = NoMerkle

\* InitBlockchain that returns a handle without reading the stored tip
InitBlockchain_noTip(signer, shape) ==
  /\ handle = "closed"
  /\ manifest' = TRUE
  /\ handle' = "open"
  /\ LastHash' = Empty
  /\ obs' = [Did("InitBlockchain", "loaded") EXCEPT !.signer = signer]
  /\ UNCHANGED <<registryVars, db, now, pc, call, tampers, m>>

\* InitBlockchain: load the stored tip, or wipe the directory and write a genesis block
InitBlockchain(signer, shape) ==
  /\ handle = "closed"
  /\ manifest' = TRUE
  /\ IF LhKey \in DOMAIN db
     THEN /\ handle' = "open"
          /\ LastHash' = db[LhKey].raw
          /\ obs' = [Did("InitBlockchain", "loaded") EXCEPT !.signer = signer]
          /\ UNCHANGED db
     ELSE LET genesis == Genesis(signer, now, 0, shape)
          IN IF genesis.panic
             THEN /\ db' = EmptyDB
                  /\ obs' = [Did("InitBlockchain", "panic") EXCEPT
                               !.signer = signer, !.fresh = (db = EmptyDB), !.msg = genesis.err]
                  /\ UNCHANGED <<handle, LastHash>>
             ELSE /\ db' = TxnSet(TxnSet(EmptyDB, genesis.block.Hash, Serialize(genesis.block)),
                                  LhKey, RawValue(genesis.block.Hash))
                  /\ handle' = "open"
                  /\ LastHash' = genesis.block.Hash
                  /\ obs' = [Did("InitBlockchain", "created") EXCEPT
                               !.signer = signer, !.fresh = (db = EmptyDB),
                               !.block = genesis.block]
  /\ UNCHANGED <<registryVars, now, pc, call, tampers, m>>

\* ContinueBlockchain that empties the database directory it opens
ContinueBlockchain_wipes ==
  /\ handle = "closed"
  /\ manifest
  /\ db' = EmptyDB
  /\ obs' = Did("ContinueBlockchain", "panic")
  /\ UNCHANGED <<registryVars, manifest, handle, LastHash, now, pc, call, tampers, m>>

ContinueBlockchain ==
  /\ handle = "closed"
  /\ manifest
  /\ IF LhKey \in DOMAIN db
     THEN /\ handle' = "open"
          /\ LastHash' = db[LhKey].raw
          /\ obs' = Did("ContinueBlockchain", "loaded")
     ELSE /\ obs' = Did("ContinueBlockchain", "panic")
          /\ UNCHANGED <<handle, LastHash>>
  /\ UNCHANGED <<registryVars, db, manifest, now, pc, call, tampers, m>>

Close ==
  /\ handle = "open"
  /\ \A c \in Requests : pc[c] \in {"idle", "done"}
  /\ handle' = "closed"
  /\ obs' = Did("Close", "ok")
  /\ UNCHANGED <<registryVars, db, manifest, LastHash, now, pc, call, tampers, m>>

\* the View transaction of AddBlock: the tip key, then the block it names
ReadTip(store) ==
  IF LhKey \notin DOMAIN store
  THEN [err |-> "Key not found", lastHash |-> Empty, prevBlock |-> NoBlock]
  ELSE IF store[LhKey].raw \notin DOMAIN store
  THEN [err |-> "Key not found", lastHash |-> store[LhKey].raw, prevBlock |-> NoBlock]
  ELSE IF ~IsGob(store[store[LhKey].raw])
  THEN [err |-> "panic", lastHash |-> store[LhKey].raw, prevBlock |-> NoBlock]
  ELSE [err |-> "nil", lastHash |-> store[LhKey].raw,
        prevBlock |-> Deserialize(store[store[LhKey].raw])]

NewHeight_same(prevBlock) == prevBlock.Height

NewHeight(prevBlock) == prevBlock.Height + 1

\* a batch that stores the block and leaves the tip key as it was
CommitBatch_noTip(store, newBlock) ==
  TxnSet(store, newBlock.Hash, Serialize(newBlock))

\* the batch of the Update transaction: the block under its hash, then the tip key
CommitBatch(store, newBlock) ==
  TxnSet(TxnSet(store, newBlock.Hash, Serialize(newBlock)), LhKey, RawValue(newBlock.Hash))

\* AddBlock, called when no other call on the handle is in progress;
\* committed is whether Badger commits the Update transaction
AddBlockCall(certificateIDs, signer, shape, committed) ==
  LET rd == ReadTip(db)
      given == [Did("AddBlock", "none") EXCEPT !.ids = certificateIDs, !.signer = signer,
                                               !.lastHash = rd.lastHash]
  IN IF rd.err # "nil"
     THEN /\ obs' = [given EXCEPT !.outcome = IF rd.err = "panic" THEN "panic" ELSE "error",
                                  !.msg = rd.err]
          /\ UNCHANGED <<db, LastHash>>
     ELSE LET nb == NewBlock(certificateIDs, rd.lastHash, NewHeight(rd.prevBlock),
                             signer, now, 0, shape)
          IN IF nb.panic
             THEN /\ obs' = [given EXCEPT !.outcome = "panic", !.msg = nb.err,
                                          !.prevHeight = rd.prevBlock.Height]
                  /\ UNCHANGED <<db, LastHash>>
             ELSE /\ LastHash' = nb.block.Hash
                  /\ IF committed
                     THEN /\ db' = CommitBatch(db, nb.block)
                          /\ obs' = [given EXCEPT !.outcome = "ok", !.block = nb.block,
                                                  !.prevHeight = rd.prevBlock.Height]
                     ELSE /\ db' = db
                          /\ obs' = [given EXCEPT !.outcome = "error",
                                                  !.msg = "commit failed",
                                                  !.prevHeight = rd.prevBlock.Height]

AddBlock(certificateIDs, signer, shape) ==
  /\ handle = "open"
  /\ \A c \in Requests : pc[c] \in {"idle", "done"}
  /\ Cardinality(BlockKeys(db)) < MaxBlocks
  /\ AddBlockCall(certificateIDs, signer, shape, TRUE)
  /\ UNCHANGED <<registryVars, manifest, handle, now, pc, call, tampers, m>>

\* AddBlock when the commit of the Update transaction fails
AddBlockCommitFails(certificateIDs, signer) ==
  /\ handle = "open"
  /\ \A c \in Requests : pc[c] \in {"idle", "done"}
  /\ Cardinality(BlockKeys(db)) < MaxBlocks
  /\ ReadTip(db).err = "nil"
  /\ AddBlockCall(certificateIDs, signer, <<32, 32>>, FALSE)
  /\ obs'.msg = "commit failed"
  /\ UNCHANGED <<registryVars, manifest, handle, now, pc, call, tampers, m>>

\* ValidateChain that empties the store when it finds the chain invalid
DoValidateChain_discards ==
  /\ handle = "open"
  /\ LET err == ValidateChain(db, LastHash, LastHash, now)
     IN /\ obs' = [Did("ValidateChain", err.kind) EXCEPT !.err = err]
        /\ db' = IF err = NoError THEN db ELSE EmptyDB
  /\ UNCHANGED <<registryVars, manifest, handle, LastHash, now, pc, call, tampers, m>>

DoValidateChain ==
  /\ handle = "open"
  /\ obs' = LET err == ValidateChain(db, LastHash, LastHash, now)
            IN [Did("ValidateChain", err.kind) EXCEPT !.err = err]
  /\ UNCHANGED <<registryVars, db, manifest, handle, LastHash, now, pc, call, tampers, m>>

DoGetStats ==
  /\ handle = "open"
  /\ obs' = LET stats == GetStats(db, LastHash)
            IN [Did("GetStats", stats.kind) EXCEPT !.stats = stats]
  /\ UNCHANGED <<registryVars, db, manifest, handle, LastHash, now, pc, call, tampers, m>>

Tick ==
  /\ now < MaxTime
  /\ now' = now + 1
  /\ obs' = Did("Tick", "ok")
  /\ UNCHANGED <<registryVars, db, manifest, handle, LastHash, pc, call, tampers, m>>

Next ==
  \/ \E signer \in Signers, shape \in AddShapes : InitBlockchain(signer, shape)
  \/ ContinueBlockchain
  \/ Close
  \/ \E ids \in AddLists, signer \in Signers, shape \in AddShapes :
        AddBlock(ids, signer, shape)
  \/ \E ids \in AddLists, signer \in Signers : AddBlockCommitFails(ids, signer)
  \/ DoValidateChain
  \/ DoGetStats
  \/ Tick

Spec == Init /\ [][Next]_vars

\* ------------------------------------------- Merkle proofs, as functions
chainVars == <<db, manifest, handle, LastHash, now, obs, pc, call, tampers>>

Range(f) == { f[i] : i \in DOMAIN f }

SeqsUpTo(S, n) == UNION { [1..k -> S] : k \in 0..n }

\* the byte strings H(left) || H(right) that the tree hashes into its inner nodes
RECURSIVE NodePairs(_)
NodePairs(nodes) ==
  IF Len(nodes) <= 1 THEN {}
  ELSE LET lv == IF Len(nodes) % 2 = 1 THEN Append(nodes, nodes[Len(nodes)]) ELSE nodes
       IN { lv[2 * p - 1] \o lv[2 * p] : p \in 1..(Len(lv) \div 2) }
            \cup NodePairs(PairNodes(nodes))

LeafInputs(certificateIDs) ==
  { CertID(i) : i \in 1..MaxCert } \cup NodePairs(MerkleLeaves(certificateIDs))

ProofInputs(certificateIDs) ==
  { [Siblings |-> s, Directions |-> d] :
      s \in SeqsUpTo(TreeNodes(certificateIDs), MaxProofLen),
      d \in SeqsUpTo(BOOLEAN, MaxProofLen) }

\* the registry of a node on which CreateUniversityIdentity("harvard") has run
InitAuthorized ==
  /\ runChecksAuthority = TRUE
  /\ UniversityIdentities = {1}
  /\ AuthorizedUniversities =
       [name \in UniversityNames |-> IF name = "harvard" THEN SignerAddress(1) ELSE Empty]

InitMerkle ==
  /\ InitAuthorized
  /\ db = EmptyDB
  /\ manifest = FALSE
  /\ handle = "closed"
  /\ LastHash = Empty
  /\ now = 0
  /\ obs = NoObs
  /\ pc = [c \in Requests |-> "idle"]
  /\ call = [c \in Requests |-> NoCall]
  /\ tampers = <<>>
  /\ m = NoMerkle

\* NewBlock on a list of credential IDs, by the authorized signer
MerkleNewBlock(certificateIDs) ==
  /\ m.stage = "none"
  /\ LET nb == NewBlock(certificateIDs, Empty, 1, 1, now, 0, <<32, 32>>)
     IN m' = [NoMerkle EXCEPT !.stage = IF nb.panic THEN "panic" ELSE "built",
                              !.ids = certificateIDs, !.block = nb.block]
  /\ UNCHANGED <<registryVars, chainVars>>

MerkleGenerateCertificateProof(certID) ==
  /\ m.stage = "built"
  /\ LET r == GenerateCertificateProof(m.block, certID)
     IN m' = [m EXCEPT !.stage = "proved", !.leaf = certID, !.proof = r.proof,
                       !.found = r.found]
  /\ UNCHANGED <<registryVars, chainVars>>

MerkleVerifyCertificateWithProof ==
  /\ m.stage = "proved"
  /\ m' = [m EXCEPT !.stage = "verified",
                    !.result = VerifyCertificateWithProof(m.block, m.leaf, m.proof)]
  /\ UNCHANGED <<registryVars, chainVars>>

\* VerifyProof on any leaf and any proof, against the MerkleRoot of the block
MerkleVerifyProof(leafData, proof) ==
  /\ m.stage = "built"
  /\ m' = IF VerifyProofPanics(proof)
          THEN [m EXCEPT !.stage = "index out of range", !.leaf = leafData, !.proof = proof]
          ELSE [m EXCEPT !.stage = "checked", !.leaf = leafData, !.proof = proof,
                         !.result = VerifyProof(leafData, proof, m.block.MerkleRoot)]
  /\ UNCHANGED <<registryVars, chainVars>>

\* Block.VerifyCertificate on the block that was built
MerkleVerifyCertificate(certID) ==
  /\ m.stage = "built"
  /\ m' = [m EXCEPT !.stage = "looked up", !.leaf = certID,
                    !.result = VerifyCertificate(m.block, certID)]
  /\ UNCHANGED <<registryVars, chainVars>>

NextMerkle ==
  \/ \E ids \in IdLists(MaxLeaves) : MerkleNewBlock(ids)
  \/ \E i \in 1..MaxCert : MerkleGenerateCertificateProof(CertID(i))
  \/ MerkleVerifyCertificateWithProof
  \/ \E leafData \in LeafInputs(m.ids), proof \in ProofInputs(m.ids) :
        MerkleVerifyProof(leafData, proof)

SpecMerkle == InitMerkle /\ [][NextMerkle]_vars

\* the credential operations of a block alone: lookup, proof generation, proof check
NextCredential ==
  \/ \E ids \in IdLists(MaxLeaves) : MerkleNewBlock(ids)
  \/ \E i \in 1..MaxCert : MerkleVerifyCertificate(CertID(i))
  \/ \E i \in 1..MaxCert : MerkleGenerateCertificateProof(CertID(i))
  \/ MerkleVerifyCertificateWithProof

SpecCredential == InitMerkle /\ [][NextCredential]_vars

\* ------------------------------- two AddBlock calls on one handle at once
InitConcurrent ==
  /\ InitAuthorized
  /\ db = StoredChain
  /\ manifest = TRUE
  /\ handle = "open"
  /\ LastHash = StoredGenesis.Hash
  /\ now = 0
  /\ obs = NoObs
  /\ pc = [c \in Requests |-> "idle"]
  /\ call = [c \in Requests |-> NoCall]
  /\ tampers = <<>>
  /\ m = NoMerkle

\* request c runs the View transaction of AddBlock and builds its block
AddBlockView(c, certificateIDs, signer) ==
  /\ handle = "open"
  /\ pc[c] = "idle"
  /\ LET rd == ReadTip(db)
         given == [NoCall EXCEPT !.ids = certificateIDs, !.signer = signer,
                                 !.lastHash = rd.lastHash]
     IN IF rd.err # "nil"
        THEN /\ call' = [call EXCEPT ![c] = [given EXCEPT
                            !.outcome = IF rd.err = "panic" THEN "panic" ELSE "error",
                            !.msg = rd.err]]
             /\ pc' = [pc EXCEPT ![c] = "done"]
        ELSE LET nb == NewBlock(certificateIDs, rd.lastHash, NewHeight(rd.prevBlock),
                                signer, now, c, <<32, 32>>)
             IN IF nb.panic
                THEN /\ call' = [call EXCEPT ![c] = [given EXCEPT !.outcome = "panic",
                                                                  !.msg = nb.err]]
                     /\ pc' = [pc EXCEPT ![c] = "done"]
                ELSE /\ call' = [call EXCEPT ![c] = [given EXCEPT
                                    !.prevHeight = rd.prevBlock.Height, !.block = nb.block]]
                     /\ pc' = [pc EXCEPT ![c] = "update"]
  /\ UNCHANGED <<registryVars, db, manifest, handle, LastHash, now, obs, tampers, m>>

\* the closure of the Update transaction: two Sets in the transaction, then the
\* assignment to chain.LastHash
AddBlockUpdate(c) ==
  /\ pc[c] = "update"
  /\ LastHash' = call[c].block.Hash
  /\ pc' = [pc EXCEPT ![c] = "commit"]
  /\ UNCHANGED <<registryVars, db, manifest, handle, now, obs, call, tampers, m>>

\* the commit of the Update transaction, which read no key and so meets no conflict
AddBlockCommit(c) ==
  /\ pc[c] = "commit"
  /\ db' = CommitBatch(db, call[c].block)
  /\ call' = [call EXCEPT ![c].outcome = "ok"]
  /\ pc' = [pc EXCEPT ![c] = "done"]
  /\ UNCHANGED <<registryVars, manifest, handle, LastHash, now, obs, tampers, m>>

NextConcurrent ==
  \/ \E c \in Requests, ids \in AddLists, signer \in Signers : AddBlockView(c, ids, signer)
  \/ \E c \in Requests : AddBlockUpdate(c)
  \/ \E c \in Requests : AddBlockCommit(c)
  \/ Tick

SpecConcurrent == InitConcurrent /\ [][NextConcurrent]_vars

\* ------------------------------ stored values changed behind the program
NonHex == << Atom("z", 0, Empty), Atom("z", 1, Empty) >>

TamperLists == { <<CertID(2), CertID(1)>> }

\* other values for a block's CertificateHashes: one hash more, one hash fewer, the first
\* hex string cut in two halves, one empty string
AlteredHashes(hashes) ==
  { Append(hashes, EncodeToString(Sha256(CertID(1)))) }
    \cup (IF hashes = <<>> THEN { <<Empty>> }
          ELSE { Tail(hashes) }
                 \cup (IF Len(hashes[1]) = 2
                       THEN { << <<hashes[1][1]>>, <<hashes[1][2]>> >> \o Tail(hashes) }
                       ELSE {}))

Tampered(kind, key, height) ==
  Append(tampers, [kind |-> kind, key |-> key, height |-> height, before |-> db])

\* Badger locks the directory of an open database: the values change while it is closed
CanTamper == handle = "closed" /\ Len(tampers) < MaxTamper

\* the value stored under key gets other CertificateHashes, all else as it was
TamperCertificateHashes(key, hashes) ==
  /\ CanTamper
  /\ key \in BlockKeys(db) /\ IsGob(db[key])
  /\ LET b == Deserialize(db[key])
     IN /\ hashes \in AlteredHashes(b.CertificateHashes)
        /\ db' = [db EXCEPT ![key] = Serialize([b EXCEPT !.CertificateHashes = hashes])]
        /\ tampers' = Tampered("CertificateHashes", key, b.Height)
  /\ obs' = Did("Tamper", "CertificateHashes")
  /\ UNCHANGED <<registryVars, manifest, handle, LastHash, now, pc, call, m>>

\* the value stored under key gets another field and the Hash field that fits it
TamperRehash(key, field) ==
  /\ CanTamper
  /\ key \in BlockKeys(db) /\ IsGob(db[key])
  /\ LET b == Deserialize(db[key])
         changed == CASE field = "PrevHash" -> [b EXCEPT !.PrevHash = key]
                      [] field = "CertificateHashes" ->
                            [b EXCEPT !.CertificateHashes = <<NonHex>> \o b.CertificateHashes]
                      [] OTHER -> [b EXCEPT !.Height = b.Height + 1]
     IN /\ db' = [db EXCEPT ![key] =
                     Serialize([changed EXCEPT !.Hash = CalculateHash(changed)])]
        /\ tampers' = Tampered("rehash", key, b.Height)
  /\ obs' = Did("Tamper", "rehash")
  /\ UNCHANGED <<registryVars, manifest, handle, LastHash, now, pc, call, m>>

\* the tip key gets another value
TamperTip(value) ==
  /\ CanTamper
  /\ LhKey \in DOMAIN db
  /\ db' = [db EXCEPT ![LhKey] = RawValue(value)]
  /\ tampers' = Tampered("lh", LhKey, 0 - 1)
  /\ obs' = Did("Tamper", "lh")
  /\ UNCHANGED <<registryVars, manifest, handle, LastHash, now, pc, call, m>>

\* the key of a block is deleted
TamperDelete(key) ==
  /\ CanTamper
  /\ key \in BlockKeys(db)
  /\ db' = [x \in (DOMAIN db) \ {key} |-> db[x]]
  /\ tampers' = Tampered("delete", key, 0 - 1)
  /\ obs' = Did("Tamper", "delete")
  /\ UNCHANGED <<registryVars, manifest, handle, LastHash, now, pc, call, m>>

\* the value of a block is overwritten with bytes that are no gob encoding
TamperCorrupt(key) ==
  /\ CanTamper
  /\ key \in BlockKeys(db)
  /\ db' = [db EXCEPT ![key] = RawValue(Garbage)]
  /\ tampers' = Tampered("corrupt", key, 0 - 1)
  /\ obs' = Did("Tamper", "corrupt")
  /\ UNCHANGED <<registryVars, manifest, handle, LastHash, now, pc, call, m>>

\* a block made without any private key is stored on top of the tip, with its own
\* consistent Hash, and the tip key is set to it
TamperAppend(kind) ==
  /\ CanTamper
  /\ Cardinality(BlockKeys(db)) < MaxBlocks
  /\ ReadTip(db).err = "nil"
  /\ LET rd == ReadTip(db)
         forged == [Timestamp |-> CASE kind = "backdated" -> rd.prevBlock.Timestamp - 1
                                    [] kind = "future" -> now + ClockSkew + 1
                                    [] OTHER -> now,
                    Hash |-> Empty,
                    PrevHash |-> rd.lastHash,
                    Height |-> IF kind = "height" THEN rd.prevBlock.Height + 2
                               ELSE rd.prevBlock.Height + 1,
                    CertificateHashes |-> hashCertificateIDs(<<CertID(1)>>),
                    Signature |-> Empty,
                    MerkleRoot |-> NewMerkleTree(<<CertID(1)>>),
                    UniversityAddress |-> SignerAddress(1)]
         block == [forged EXCEPT !.Hash = CalculateHash(forged)]
     IN /\ db' = CommitBatch(db, block)
        /\ tampers' = Tampered(kind, block.Hash, block.Height)
  /\ obs' = Did("Tamper", kind)
  /\ UNCHANGED <<registryVars, manifest, handle, LastHash, now, pc, call, m>>

InitTamper ==
  /\ InitAuthorized
  /\ db = StoredChain
  /\ manifest = TRUE
  /\ handle = "closed"
  /\ LastHash = Empty
  /\ now = 0
  /\ obs = NoObs
  /\ pc = [c \in Requests |-> "idle"]
  /\ call = [c \in Requests |-> NoCall]
  /\ tampers = <<>>
  /\ m = NoMerkle

NextTamper ==
  \/ ContinueBlockchain
  \/ Close
  \/ \E ids \in TamperLists : AddBlock(ids, 1, <<32, 32>>)
  \/ DoValidateChain
  \/ \E key \in BlockKeys(db) :
        \E hashes \in AlteredHashes(IF IsGob(db[key])
                                    THEN Deserialize(db[key]).CertificateHashes ELSE <<>>) :
           TamperCertificateHashes(key, hashes)
  \/ \E key \in BlockKeys(db), field \in {"Height", "PrevHash", "CertificateHashes"} :
        TamperRehash(key, field)
  \/ \E value \in {Empty, Sha256(Garbage)} : TamperTip(value)
  \/ \E key \in BlockKeys(db) : TamperDelete(key)
  \/ \E key \in BlockKeys(db) : TamperCorrupt(key)
  \/ \E kind \in {"unsigned", "height", "backdated", "future"} : TamperAppend(kind)

SpecTamper == InitTamper /\ [][NextTamper]_vars

\* ------------------------------------ InitBlockchain on a damaged directory
\* the tip key is deleted
TamperDeleteTip ==
  /\ CanTamper
  /\ LhKey \in DOMAIN db
  /\ db' = [x \in (DOMAIN db) \ {LhKey} |-> db[x]]
  /\ tampers' = Tampered("delete lh", LhKey, 0 - 1)
  /\ obs' = Did("Tamper", "delete lh")
  /\ UNCHANGED <<registryVars, manifest, handle, LastHash, now, pc, call, m>>

NextCorrupt ==
  \/ \E signer \in Signers, shape \in AddShapes : InitBlockchain(signer, shape)
  \/ ContinueBlockchain
  \/ Close
  \/ \E ids \in TamperLists : AddBlock(ids, 1, <<32, 32>>)
  \/ DoValidateChain
  \/ DoGetStats
  \/ TamperDeleteTip
  \/ \E value \in {Empty, Sha256(Garbage)} : TamperTip(value)
  \/ \E key \in BlockKeys(db) : TamperDelete(key)
  \/ \E key \in BlockKeys(db) : TamperCorrupt(key)

SpecCorrupt == InitTamper /\ [][NextCorrupt]_vars

\* ------------------------------------------- appends under a clock that may step back
ClockReadings == 0..(MaxTime + 1)

\* the wall clock read by time.Now() is set to t, later or earlier than it was
ClockSet(t) ==
  /\ t # now
  /\ now' = t
  /\ obs' = Did("ClockSet", "ok")
  /\ UNCHANGED <<registryVars, db, manifest, handle, LastHash, pc, call, tampers, m>>

NextClock ==
  \/ ContinueBlockchain
  \/ Close
  \/ \E ids \in TamperLists : AddBlock(ids, 1, <<32, 32>>)
  \/ DoValidateChain
  \/ \E t \in ClockReadings : ClockSet(t)

SpecClock == InitTamper /\ [][NextClock]_vars

\* ----------------------------------- ValidateChain while AddBlock calls run
\* a ValidateChain call in steps: bc.LastHash read for the walk, the blocks loaded from
\* the store, the checks ending with the second read of bc.LastHash
NoValidation == [stage |-> "none", startHash |-> Empty, store |-> EmptyDB, err |-> NoError]

InitValidate ==
  /\ InitAuthorized
  /\ db = StoredChain
  /\ manifest = TRUE
  /\ handle = "open"
  /\ LastHash = StoredGenesis.Hash
  /\ now = 0
  /\ obs = NoObs
  /\ pc = [c \in Requests |-> "idle"]
  /\ call = [c \in Requests |-> NoCall]
  /\ tampers = <<>>
  /\ m = NoValidation

\* currentHash := append([]byte{}, bc.LastHash...)
ValidateRead ==
  /\ handle = "open"
  /\ m.stage = "none"
  /\ m' = [m EXCEPT !.stage = "read", !.startHash = LastHash]
  /\ UNCHANGED <<registryVars, chainVars>>

\* the loop of View transactions that loads the blocks back to the genesis block
ValidateWalk ==
  /\ m.stage = "read"
  /\ m' = [m EXCEPT !.stage = "walked", !.store = db]
  /\ UNCHANGED <<registryVars, chainVars>>

\* the checks on the loaded blocks, the last one against bc.LastHash as it is now
ValidateReturn ==
  /\ m.stage = "walked"
  /\ m' = [m EXCEPT !.stage = "returned",
                    !.err = ValidateChain(m.store, m.startHash, LastHash, now)]
  /\ UNCHANGED <<registryVars, chainVars>>

\* request c calls AddBlock when the other request has no call in progress
AddBlockAlone(c, certificateIDs, signer) ==
  /\ \A d \in Requests \ {c} : pc[d] \in {"idle", "done"}
  /\ AddBlockView(c, certificateIDs, signer)

NextValidate ==
  \/ \E c \in Requests, ids \in TamperLists : AddBlockAlone(c, ids, 1)
  \/ \E c \in Requests : AddBlockUpdate(c)
  \/ \E c \in Requests : AddBlockCommit(c)
  \/ ValidateRead
  \/ ValidateWalk
  \/ ValidateReturn

SpecValidate == InitValidate /\ [][NextValidate]_vars

\* --------------------------------------------------- the iterator, step by step
\* an iterator in the hands of its caller: the blocks Next has returned so far, and
\* (for the properties) the tip and the number of appended blocks when it was created
NoIterator ==
  [stage |-> "none", CurrentHash |-> Empty, yielded |-> <<>>, tip |-> Empty, appended |-> 0]

InitIterator ==
  /\ InitAuthorized
  /\ InitChain
  /\ m = NoIterator

\* Next that returns the block and leaves CurrentHash where it was
IteratorNext_stay(store, CurrentHash) ==
  IF CurrentHash \notin DOMAIN store \/ ~IsGob(store[CurrentHash])
  THEN [panic |-> TRUE, block |-> NoBlock, CurrentHash |-> CurrentHash]
  ELSE [panic |-> FALSE, block |-> Deserialize(store[CurrentHash]),
        CurrentHash |-> CurrentHash]

\* BlockchainIterator.Next: the block stored under CurrentHash, then CurrentHash moves
\* to its PrevHash; log.Panic when the key is not found or empty
IteratorNext(store, CurrentHash) ==
  IF CurrentHash \notin DOMAIN store \/ ~IsGob(store[CurrentHash])
  THEN [panic |-> TRUE, block |-> NoBlock, CurrentHash |-> CurrentHash]
  ELSE [panic |-> FALSE, block |-> Deserialize(store[CurrentHash]),
        CurrentHash |-> Deserialize(store[CurrentHash]).PrevHash]

\* Blockchain.Iterator
NewIterator ==
  /\ handle = "open"
  /\ m.stage \in {"none", "done", "panic"}
  /\ m' = [NoIterator EXCEPT !.stage = "iterating", !.CurrentHash = LastHash,
                             !.tip = LastHash,
                             !.appended = Cardinality(BlockKeys(db)) - 1]
  /\ UNCHANGED <<registryVars, chainVars>>

\* a call of Next that starts again from the tip once the genesis block was returned
IterNext_restart ==
  /\ m.stage \in {"iterating", "done"}
  /\ LET nx == IteratorNext(db, IF m.stage = "done" THEN LastHash ELSE m.CurrentHash)
     IN m' = IF nx.panic THEN [m EXCEPT !.stage = "panic"]
             ELSE [m EXCEPT !.stage = IF Len(nx.block.PrevHash) = 0
                                      THEN "done" ELSE "iterating",
                            !.CurrentHash = nx.CurrentHash,
                            !.yielded = Append(m.yielded, nx.block)]
  /\ UNCHANGED <<registryVars, chainVars>>

\* one call of Next; the caller's loop ends with the block whose PrevHash is empty,
\* and a call after that one finds no key
IterNext ==
  /\ m.stage \in {"iterating", "done"}
  /\ LET nx == IteratorNext(db, m.CurrentHash)
     IN m' = IF nx.panic THEN [m EXCEPT !.stage = "panic"]
             ELSE [m EXCEPT !.stage = IF Len(nx.block.PrevHash) = 0
                                      THEN "done" ELSE "iterating",
                            !.CurrentHash = nx.CurrentHash,
                            !.yielded = Append(m.yielded, nx.block)]
  /\ UNCHANGED <<registryVars, chainVars>>

NextIterator ==
  \/ \E signer \in Signers : InitBlockchain(signer, <<32, 32>>)
  \/ Close
  \/ \E ids \in AddLists, shape \in AddShapes : AddBlock(ids, 1, shape)
  \/ NewIterator
  \/ IterNext

SpecIterator == InitIterator /\ [][NextIterator]_vars

\* --------------------------------------------- the registry of universities
\* the names registered so far with the number of the key each got last (for the
\* properties), and the last IsAuthorizedUniversity call with its result
NoRegistry ==
  [stage |-> "none", registered |-> [name \in {} |-> 0], key |-> 0, result |-> FALSE]

InitRegistryEmpty ==
  /\ runChecksAuthority = TRUE
  /\ UniversityIdentities = NilIdentities
  /\ AuthorizedUniversities = [name \in UniversityNames |-> Empty]
  /\ db = EmptyDB
  /\ manifest = FALSE
  /\ handle = "closed"
  /\ LastHash = Empty
  /\ now = 0
  /\ obs = NoObs
  /\ pc = [c \in Requests |-> "idle"]
  /\ call = [c \in Requests |-> NoCall]
  /\ tampers = <<>>
  /\ m = NoRegistry

\* the identities CreateIdentities loads from the identities file: none, or one that an
\* earlier run saved
LoadedIdentities == { {}, {1} }

\* MakeIdentity: a key pair no identity had before
FreshKey(identities) ==
  CHOOSE k \in 1..(MaxKeys + 1) :
     k \notin identities /\ \A j \in 1..(k - 1) : j \in identities

\* CreateUniversityIdentity(universityName)
CreateUniversityIdentity(universityName) ==
  \E loaded \in LoadedIdentities :
    LET identities == IF UniversityIdentities = NilIdentities
                      THEN loaded ELSE UniversityIdentities
        k == FreshKey(identities)
    IN /\ UniversityIdentities = NilIdentities \/ loaded = {}
       /\ Cardinality(identities) < MaxKeys
       /\ UniversityIdentities' = identities \cup {k}
       /\ AuthorizedUniversities' =
            [name \in (DOMAIN AuthorizedUniversities) \cup {universityName} |->
               IF name = universityName THEN SignerAddress(k)
               ELSE AuthorizedUniversities[name]]
       /\ m' = [m EXCEPT !.stage = "created",
                         !.registered = [name \in (DOMAIN m.registered) \cup {universityName}
                                           |-> IF name = universityName THEN k
                                               ELSE m.registered[name]]]
       /\ UNCHANGED <<runChecksAuthority, chainVars>>

\* RemoveAuthorizedUniversity(name)
RemoveAuthorizedUniversity(universityName) ==
  /\ AuthorizedUniversities' =
       [name \in (DOMAIN AuthorizedUniversities) \ {universityName} |->
          AuthorizedUniversities[name]]
  /\ m' = [m EXCEPT !.stage = "removed",
                    !.registered = [name \in (DOMAIN m.registered) \ {universityName}
                                      |-> m.registered[name]]]
  /\ UNCHANGED <<UniversityIdentities, runChecksAuthority, chainVars>>

\* ProofOfAuthority.IsAuthorizedUniversity with the public key of key pair k
CheckAuthorized(k) ==
  /\ m' = [m EXCEPT !.stage = "checked", !.key = k,
                    !.result = IsAuthorizedUniversity(PubKey(k))]
  /\ UNCHANGED <<registryVars, chainVars>>

NextRegistry ==
  \/ \E name \in UniversityNames : CreateUniversityIdentity(name)
  \/ \E name \in UniversityNames : RemoveAuthorizedUniversity(name)
  \/ \E k \in 0..MaxKeys : CheckAuthorized(k)

SpecRegistry == InitRegistryEmpty /\ [][NextRegistry]_vars

\* ------------------------------------------- the node's list command
\* the lines the last list command printed and (for the properties) the tip it started at
NoList == [stage |-> "none", printed |-> <<>>, tip |-> Empty]

\* listBlocks reads the Hash, Height, UniversityAddress and PrevHash of the blocks it
\* prints and nothing else, so the chains it is run on are given by their links alone:
\* block number height of a chain, its Hash an opaque digest named by the height (the
\* Hash AddBlock computes contains the previous Hash and the Signature over it)
ListedBlock(height, signer) ==
  [NoBlock EXCEPT !.Hash = Sha256(ToHex(height)),
                  !.PrevHash = IF height = 0 THEN Empty ELSE Sha256(ToHex(height - 1)),
                  !.Height = height,
                  !.UniversityAddress = SignerAddress(signer)]

\* the store after the blocks 0..Len(signers)-1 were written: each block under its Hash,
\* and the tip key
RECURSIVE ListedStore(_)
ListedStore(signers) ==
  LET n == Len(signers)
      block == ListedBlock(n - 1, signers[n])
      below == IF n = 1 THEN EmptyDB ELSE ListedStore(SubSeq(signers, 1, n - 1))
  IN TxnSet(TxnSet(below, block.Hash, Serialize(block)), LhKey, RawValue(block.Hash))

\* the node in interactive mode on a chain of 1..MaxListed blocks
InitList ==
  /\ InitAuthorized
  /\ \E n \in 1..MaxListed : \E signers \in [1..n -> Signers] :
        /\ db = ListedStore(signers)
        /\ LastHash = db[LhKey].raw
  /\ manifest = TRUE
  /\ handle = "open"
  /\ now = 0
  /\ obs = NoObs
  /\ pc = [c \in Requests |-> "idle"]
  /\ call = [c \in Requests |-> NoCall]
  /\ tampers = <<>>
  /\ m = NoList

\* the loop of listBlocks: while blockCount < 10, Next, print the block, count it, and
\* leave the loop at the block whose PrevHash is empty
RECURSIVE listLoop(_, _, _, _)
listLoop(store, CurrentHash, blockCount, printed) ==
  IF ~(blockCount < ListLimit) THEN [panic |-> FALSE, printed |-> printed]
  ELSE LET nx == IteratorNext(store, CurrentHash)
           line == [index |-> blockCount, Height |-> nx.block.Height,
                    Hash |-> nx.block.Hash, Address |-> nx.block.UniversityAddress]
       IN IF nx.panic THEN [panic |-> TRUE, printed |-> printed]
          ELSE IF Len(nx.block.PrevHash) = 0
               THEN [panic |-> FALSE, printed |-> Append(printed, line)]
               ELSE listLoop(store, nx.CurrentHash, blockCount + 1,
                             Append(printed, line))

\* listBlocks(chain): an iterator at chain.LastHash, then the loop
listBlocks(store, lastHash) == listLoop(store, lastHash, 0, <<>>)

\* the list command of the interactive node
ListCommand ==
  /\ handle = "open"
  /\ m.stage = "none"
  /\ LET r == listBlocks(db, LastHash)
     IN m' = [stage |-> IF r.panic THEN "panic" ELSE "listed",
              printed |-> r.printed, tip |-> LastHash]
  /\ UNCHANGED <<registryVars, chainVars>>

NextList == ListCommand

SpecList == InitList /\ [][NextList]_vars

\* ----------------------------------- the chain kept in a slice (earlier revisions)
\* CalculateHash of the revision without signatures: PrevHash, the certificate hashes,
\* Timestamp, Height and the address
MemCalculateHash(b) ==
  Sha256(Join(<< b.PrevHash, HashCertificates(b), ToHex(b.Timestamp), ToHex(b.Height),
                 b.UniversityAddress >>))

\* NewBlock of that revision; the Run of its proof is taken to return no error
MemNewBlock(certificateIDs, prevHash, height, universityAddress, t) ==
  LET block == [NoBlock EXCEPT !.Timestamp = t, !.PrevHash = prevHash, !.Height = height,
                               !.UniversityAddress = universityAddress,
                               !.CertificateHashes = hashCertificateIDs(certificateIDs)]
  IN [block EXCEPT !.Hash = MemCalculateHash(block)]

\* ValidateChain over bc.Blocks, with Validate of that revision
MemValidateChain(Blocks, lastHash, t) ==
  LET Validate(b) ==
        IF b.Hash # MemCalculateHash(b) THEN "invalid block hash"
        ELSE IF b.Height < 0 THEN "invalid block height"
        ELSE IF b.Timestamp > t + ClockSkew
        THEN "block timestamp is too far in the future"
        ELSE IF b.Height > 0 /\ b.UniversityAddress = Empty
        THEN "university address cannot be empty for non-genesis blocks"
        ELSE IF \E i \in 1..Len(b.CertificateHashes) :
                   \/ ByteLen(b.CertificateHashes[i]) # HexDigestLen
                   \/ ~IsHexString(b.CertificateHashes[i])
        THEN "invalid certificate hash"
        ELSE "nil"
      Check(i) ==
        IF Validate(Blocks[i + 1]) # "nil" THEN ChainError("block validation failed", i)
        ELSE IF Blocks[i + 1].Height # i THEN ChainError("block has incorrect height", i)
        ELSE IF Blocks[i + 1].PrevHash # Blocks[i].Hash
        THEN ChainError("block has incorrect PrevHash", i)
        ELSE IF Blocks[i + 1].Timestamp < Blocks[i].Timestamp
        THEN ChainError("block timestamp is before previous block timestamp", i)
        ELSE NoError
      bad == { i \in 1..(Len(Blocks) - 1) : Check(i) # NoError }
  IN IF Len(Blocks) = 0 THEN ChainError("blockchain is empty", 0 - 1)
     ELSE IF Blocks[1].Height # 0
     THEN ChainError("first block must be genesis block with height 0", 0 - 1)
     ELSE IF Len(Blocks[1].PrevHash) # 0
     THEN ChainError("genesis block should have empty PrevHash", 0 - 1)
     ELSE IF Validate(Blocks[1]) # "nil"
     THEN ChainError("genesis block validation failed", 0 - 1)
     ELSE IF bad # {} THEN Check(CHOOSE i \in bad : \A j \in bad : i <= j)
     ELSE IF lastHash # Blocks[Len(Blocks)].Hash THEN ChainError("LastHash mismatch", 0 - 1)
     ELSE NoError

\* no chain yet; revision is the one InitBlockchain and AddBlock are taken from:
\* "height is len" has AddBlock pass len(bc.Blocks) and InitBlockchain set LastHash,
\* "height is len+1" has AddBlock pass len(bc.Blocks)+1 and InitBlockchain leave LastHash nil
InitMemory ==
  /\ InitAuthorized
  /\ db = EmptyDB
  /\ manifest = FALSE
  /\ handle = "closed"
  /\ LastHash = Empty
  /\ now = 0
  /\ obs = NoObs
  /\ pc = [c \in Requests |-> "idle"]
  /\ call = [c \in Requests |-> NoCall]
  /\ tampers = <<>>
  /\ m = [stage |-> "none", revision |-> "none", Blocks |-> <<>>, LastHash |-> Empty]

MemInitBlockchain(revision) ==
  /\ m.stage = "none"
  /\ LET genesis == MemNewBlock(<<>>, Empty, 0, << Atom("name", 0, Empty) >>, now)
     IN m' = [stage |-> "chain", revision |-> revision, Blocks |-> <<genesis>>,
              LastHash |-> IF revision = "height is len" THEN genesis.Hash ELSE Empty]
  /\ UNCHANGED <<registryVars, chainVars>>

MemAddBlock(certificateIDs) ==
  /\ m.stage = "chain"
  /\ Len(m.Blocks) < MaxBlocks
  /\ LET prevBlock == m.Blocks[Len(m.Blocks)]
         height == IF m.revision = "height is len" THEN Len(m.Blocks)
                   ELSE Len(m.Blocks) + 1
         newBlock == MemNewBlock(certificateIDs, prevBlock.Hash, height,
                                 << Atom("name", 1, Empty) >>, now)
     IN m' = [m EXCEPT !.Blocks = Append(m.Blocks, newBlock), !.LastHash = newBlock.Hash]
  /\ UNCHANGED <<registryVars, chainVars>>

NextMemory ==
  \/ \E revision \in {"height is len", "height is len+1"} : MemInitBlockchain(revision)
  \/ \E ids \in IdLists(MaxLeaves) : MemAddBlock(ids)

SpecMemory == InitMemory /\ [][NextMemory]_vars

\* ------------------------------ one block: built, a field changed, checked
BlockFields ==
  {"Hash", "PrevHash", "Timestamp", "CertificateHashes", "Signature", "MerkleRoot",
   "Height", "UniversityAddress"}

\* the case in hand: the block NewBlock returned, a copy with one field changed, and
\* what Validate and Verify returned on the copy
NoCase ==
  [stage |-> "none", ids |-> <<>>, orig |-> NoBlock, block |-> NoBlock, field |-> "none",
   signer |-> 0, key |-> 0, shape |-> <<0, 0>>, validate |-> "none", verify |-> "none"]

\* values a field of block b is changed to
FieldValues(b, field) ==
  CASE field = "Hash" -> {Empty, Sha256(Garbage)}
    [] field = "PrevHash" -> {Empty, Sha256(Garbage), Sha256(Empty)}
    [] field = "Timestamp" -> {b.Timestamp + 1, b.Timestamp - 1}
    [] field = "CertificateHashes" ->
         AlteredHashes(b.CertificateHashes)
           \cup { [i \in 1..Len(b.CertificateHashes) |->
                     b.CertificateHashes[Len(b.CertificateHashes) + 1 - i]] }
    [] field = "Signature" ->
         {Empty, Garbage,
          SignerSign(0, CalculateHashForSigning(b), 0, <<32, 32>>),
          SignerSign(1, CalculateHashForSigning(b), 0, <<31, 32>>),
          SignerSign(1, CalculateHashForSigning(b), 1, <<32, 32>>)}
    [] field = "MerkleRoot" -> {Empty, Sha256(Garbage)}
    [] field = "Height" -> {b.Height + 1, 0}
    [] OTHER -> {Empty, SignerAddress(0), SignerAddress(1)}

HeightInputs == {0, 1}

PrevHashInputs == {Empty, Sha256(Empty)}

InitBlock ==
  /\ InitAuthorized
  /\ db = EmptyDB
  /\ manifest = FALSE
  /\ handle = "closed"
  /\ LastHash = Empty
  /\ now = 0
  /\ obs = NoObs
  /\ pc = [c \in Requests |-> "idle"]
  /\ call = [c \in Requests |-> NoCall]
  /\ tampers = <<>>
  /\ m = NoCase

\* NewBlock by the authorized signer, whose signature has the byte lengths of shape
BlockNewBlock(certificateIDs, prevHash, height, shape) ==
  /\ m.stage = "none"
  /\ LET nb == NewBlock(certificateIDs, prevHash, height, 1, now, 0, shape)
     IN m' = [NoCase EXCEPT !.stage = IF nb.panic THEN "panic" ELSE "built",
                            !.ids = certificateIDs, !.orig = nb.block,
                            !.block = nb.block, !.signer = 1, !.shape = shape]
  /\ UNCHANGED <<registryVars, chainVars>>

\* one field of the block gets another value
BlockChange(field, value) ==
  /\ m.stage = "built"
  /\ value # m.block[field]
  /\ m' = [m EXCEPT !.stage = "changed", !.field = field, !.block[field] = value]
  /\ UNCHANGED <<registryVars, chainVars>>

\* Validate, then Verify under the signer's public key, on the block in hand
BlockValidateVerify ==
  /\ m.stage \in {"built", "changed"}
  /\ m' = [m EXCEPT !.stage = IF m.stage = "built" THEN "built checked" ELSE "changed checked",
                    !.validate = BlockValidate(m.block, now),
                    !.verify = IF BlockVerify(m.block, SignerPublicKey(m.signer))
                               THEN "true" ELSE "false"]
  /\ UNCHANGED <<registryVars, chainVars>>

\* Verify under the public key of key pair k, on the block in hand
BlockVerifyKey(k) ==
  /\ m.stage \in {"built", "changed"}
  /\ m' = [m EXCEPT !.stage = "verified", !.key = k,
                    !.verify = IF BlockVerify(m.block, PubKey(k)) THEN "true" ELSE "false"]
  /\ UNCHANGED <<registryVars, chainVars>>

NextBlock ==
  \/ \E ids \in TamperLists \cup AddLists, prevHash \in PrevHashInputs,
        height \in HeightInputs, shape \in SigShapes :
        BlockNewBlock(ids, prevHash, height, shape)
  \/ \E field \in BlockFields : \E value \in FieldValues(m.block, field) :
        BlockChange(field, value)
  \/ BlockValidateVerify
  \/ \E k \in Signers : BlockVerifyKey(k)

SpecBlock == InitBlock /\ [][NextBlock]_vars

\* -------------------------------------------------------------- properties
Ready == handle = "open"

BlockCount == GetStats(db, LastHash).BlockCount

ChainValid == ValidateChain(db, LastHash, LastHash, now) = NoError

Authorized(signer) == IsAuthorizedUniversity(SignerPublicKey(signer))

AddBlockReturned == obs.op = "AddBlock" /\ obs.outcome = "ok"

\* C1: a successful AddBlock returns a block one higher than the stored tip block and
\* linked to the stored tip hash, stores it under its own Hash, and leaves both the
\* tip key "lh" and the handle's LastHash equal to that Hash.
C1_AddBlockLinksAndAdvancesTip ==
  [][ AddBlockReturned' =>
        LET tip == Deserialize(db[db[LhKey].raw])
            b == obs'.block
        IN /\ b.Height = tip.Height + 1
           /\ b.PrevHash = db[LhKey].raw
           /\ b.PrevHash = tip.Hash
           /\ b.Hash \in DOMAIN db'
           /\ Deserialize(db'[b.Hash]) = b
           /\ db'[LhKey].raw = b.Hash
           /\ LastHash' = b.Hash ]_vars

C1_Witness == AddBlockReturned /\ obs.block.Height = 2 /\ db[LhKey].raw = obs.block.Hash

\* C2: from a freshly initialized chain, every AddBlock call with a non-empty list and an
\* authorized signer adds exactly one block: after N calls GetStats().BlockCount is N+1
\* and ValidateChain returns no error (stated per call: N = 0 after InitBlockchain on an
\* uninitialized store, N+1 after one more call on a chain that had N+1 blocks).
C2_AppendsCountAndValidate ==
  [][ /\ (obs'.op = "InitBlockchain" /\ obs'.fresh)
           => (Ready' /\ BlockCount' = 1 /\ ChainValid')
      /\ (/\ obs'.op = "AddBlock" /\ obs'.ids # <<>> /\ Authorized(obs'.signer)
          /\ obs'.msg # "commit failed" /\ ChainValid)
           => (BlockCount' = BlockCount + 1 /\ ChainValid') ]_vars

\* C3: InitBlockchain on an uninitialized store completes and leaves exactly a genesis
\* block (Height 0, empty PrevHash, no credentials, signed by the signer) with the tip
\* key and LastHash set to its hash.
C3_InitCreatesGenesis ==
  (obs.op = "InitBlockchain" /\ obs.fresh) =>
     /\ obs.outcome = "created"
     /\ Ready
     /\ LhKey \in DOMAIN db
     /\ db[LhKey].raw = LastHash
     /\ BlockKeys(db) = {LastHash}
     /\ LET genesis == Deserialize(db[LastHash])
        IN /\ genesis.Height = 0
           /\ genesis.PrevHash = Empty
           /\ genesis.CertificateHashes = <<>>
           /\ genesis.Hash = LastHash
           /\ BlockVerify(genesis, SignerPublicKey(obs.signer))

\* C10: AddBlock with a signer that is not authorized fails with an authorization error:
\* no block is returned, nothing is persisted, the tip and the block count stay the same.
C10_UnauthorizedAddBlockRejected ==
  [][ (obs'.op = "AddBlock" /\ obs'.ids # <<>> /\ ~Authorized(obs'.signer)
       /\ ReadTip(db).err = "nil")
        => /\ obs'.outcome = "error"
           /\ obs'.msg = "university public key is not authorized"
           /\ db' = db
           /\ LastHash' = LastHash
           /\ BlockCount' = BlockCount ]_vars

\* C4: for a block built by NewBlock from a non-empty list, every ID of the list gets
\* found = true from GenerateCertificateProof and a proof that
\* VerifyCertificateWithProof accepts.
C4_EveryIncludedIdProves ==
  (m.stage = "verified" /\ m.leaf \in Range(m.ids)) => (m.found /\ m.result)

\* C5: VerifyProof against a block's MerkleRoot returns true only when SHA-256(leaf) is
\* one of the block's credential hashes; in particular a leaf that is the concatenation
\* of two node digests is not accepted.
C5_OnlyCredentialLeavesVerify ==
  (m.stage = "checked" /\ m.result) =>
     EncodeToString(Sha256(m.leaf)) \in Range(m.block.CertificateHashes)

BothReturned == \A c \in Requests : pc[c] = "done" /\ call[c].outcome = "ok"

WalkFrom(store, tip) == LoadChain(store, tip, <<>>, Cardinality(DOMAIN store) + 1).blocks

\* C6: when two AddBlock calls on one handle have both returned successfully, their
\* blocks have different heights, both are reachable from the stored tip by PrevHash
\* links, and the chain holds two blocks more than before the calls.
C6_ConcurrentAppendsSerialized ==
  BothReturned =>
     /\ call[1].block.Height # call[2].block.Height
     /\ \A c \in Requests : call[c].block \in Range(WalkFrom(db, db[LhKey].raw))
     /\ GetStats(db, db[LhKey].raw).BlockCount
          = GetStats(StoredChain, StoredGenesis.Hash).BlockCount + 2

SignatureVerifies(b) ==
  \E k \in Signers : /\ SignerAddress(k) = b.UniversityAddress
                     /\ BlockVerify(b, SignerPublicKey(k))

Walk(store, tip) == LoadChain(store, tip, <<>>, Cardinality(DOMAIN store) + 1)

Validated == obs.op = "ValidateChain"

\* C7: ValidateChain returns an error whenever a block on the walk from the tip carries
\* a Signature that does not verify under its signer's public key, also when the
\* block's Hash and linkage are consistent.
C7_ValidateChainVerifiesSignatures ==
  (/\ Validated
   /\ Walk(db, LastHash).kind = "ok"
   /\ \E b \in Range(Walk(db, LastHash).blocks) : ~SignatureVerifies(b))
     => obs.err.kind = "error"

\* ValidateChain has run on a store in which the only change to a chain that validated
\* is the CertificateHashes of one block on the walk
OnlyHashesTampered ==
  /\ Validated
  /\ Len(tampers) = 1
  /\ tampers[1].kind = "CertificateHashes"
  /\ DOMAIN db = DOMAIN tampers[1].before
  /\ \A key \in (DOMAIN db) \ {tampers[1].key} : db[key] = tampers[1].before[key]
  /\ ValidateChain(tampers[1].before, LastHash, LastHash, now) = NoError
  /\ \E b \in Range(Walk(tampers[1].before, LastHash).blocks) : b.Hash = tampers[1].key

\* C8 as stated: after the CertificateHashes of one stored block are altered, ValidateChain
\* returns an error whose block index is the height of that block, at any height.
C8_TamperedHashesIndexAtAnyHeight ==
  OnlyHashesTampered => (obs.err.kind = "error" /\ obs.err.index = tampers[1].height)

\* C8 amended: after the CertificateHashes of one stored block of a chain that validated
\* are altered, ValidateChain returns an error; for a block of height 1 or more it is
\* "block <i> validation failed" with i the height of the block, for the genesis block
\* it is "genesis block validation failed", which carries no block index.
C8_TamperedHashesReported ==
  OnlyHashesTampered =>
     /\ obs.err.kind = "error"
     /\ IF tampers[1].height = 0
        THEN obs.err.msg = "genesis block validation failed" /\ obs.err.index = 0 - 1
        ELSE obs.err.msg = "block validation failed" /\ obs.err.index = tampers[1].height

C8_Witness == OnlyHashesTampered /\ tampers[1].height = 2 /\ obs.err.index = 2

\* what the walk from the tip must satisfy, oldest block first
ChainAccepted(store, tip, t) ==
  /\ tip # Empty
  /\ Walk(store, tip).kind = "ok"
  /\ LET blocks == Walk(store, tip).blocks
         n == Len(blocks)
     IN /\ blocks[1].Height = 0
        /\ \A i \in 1..n : BlockValidate(blocks[i], t) = "nil"
        /\ \A i \in 1..n : blocks[i].Height = i - 1
        /\ \A i \in 2..n : blocks[i].PrevHash = blocks[i - 1].Hash
        /\ \A i \in 2..n : blocks[i].Timestamp >= blocks[i - 1].Timestamp
        /\ tip = blocks[n].Hash

C11_ValidateDetectsFieldChange ==
  /\ m.stage = "built checked" => m.validate = "nil"
  /\ (m.stage = "changed checked"
      /\ m.field \in {"Hash", "PrevHash", "Timestamp", "CertificateHashes", "Signature"})
       => m.validate # "nil"

C11_Witness ==
  /\ m.stage = "changed checked"
  /\ m.field = "Signature"
  /\ m.validate = "invalid block hash"

\* C12: after one of PrevHash, CertificateHashes, MerkleRoot, Timestamp, Height,
\* UniversityAddress of a signed block got another value, Verify under the original
\* signer's public key returns false.
C12_SignatureCoversFields ==
  (m.stage = "changed checked"
   /\ m.field \in {"PrevHash", "CertificateHashes", "MerkleRoot", "Timestamp", "Height",
                   "UniversityAddress"})
    => m.verify = "false"

\* C13: a block that differs from a built block in one of PrevHash, CertificateHashes,
\* MerkleRoot, Timestamp, Height, UniversityAddress, Signature has another CalculateHash,
\* and fails Block.Validate.
C13_HashCoversFields ==
  (m.stage = "changed checked" /\ m.field # "Hash")
    => (CalculateHash(m.block) # CalculateHash(m.orig) /\ m.validate # "nil")

\* C14: NewBlock of some credentials by an authorized signer never fails, whatever the
\* byte lengths of r and s: the stored Signature is 64 bytes and the block verifies
\* under the signer's key.
C14_SignVerifyRoundTrip ==
  m.ids # <<>> =>
    /\ m.stage # "panic"
    /\ m.stage = "built checked"
         => (ByteLen(m.block.Signature) = 2 * DigestSize /\ m.verify = "true")

\* C15: InitBlockchain on a store whose tip key can be read, as it can on every store
\* that holds a valid chain, returns a handle whose LastHash is the stored tip and
\* changes nothing in the store, so a repeated call gives the same tip, the same block
\* count and the same chain to validate.
C15_InitBlockchainIdempotent ==
  [][ (obs'.op = "InitBlockchain" /\ LhKey \in DOMAIN db)
        => (/\ obs'.outcome = "loaded"
            /\ Ready'
            /\ LastHash' = db[LhKey].raw
            /\ db' = db
            /\ now' = now
            /\ BlockCount' = GetStats(db, db[LhKey].raw).BlockCount) ]_vars

C15_Witness ==
  /\ obs.op = "InitBlockchain"
  /\ obs.outcome = "loaded"
  /\ BlockCount = 2
  /\ LastHash = db[LhKey].raw
  /\ ChainValid

\* the store is corrupt: no tip key, a tip that names no stored block, or a stored
\* block that does not decode
Corrupt(store) ==
  \/ LhKey \notin DOMAIN store
  \/ store[LhKey].raw \notin BlockKeys(store)
  \/ \E key \in BlockKeys(store) : ~IsGob(store[key])

\* C16: InitBlockchain on a corrupt store discards it and creates a new chain: the store
\* holds exactly one block, a genesis block, the tip key and LastHash name it, and
\* ValidateChain returns no error.
C16_InitRecreatesCorruptStore ==
  [][ (obs'.op = "InitBlockchain" /\ Corrupt(db))
        => (/\ Ready'
            /\ Cardinality(BlockKeys(db')) = 1
            /\ LhKey \in DOMAIN db'
            /\ db'[LhKey].raw \in BlockKeys(db')
            /\ LastHash' = db'[LhKey].raw
            /\ IsGob(db'[LastHash'])
            /\ Deserialize(db'[LastHash']).Height = 0
            /\ Deserialize(db'[LastHash']).PrevHash = Empty
            /\ ChainValid') ]_vars

\* the blocks reached from the stored tip by PrevHash links, oldest first
StoredWalk == LoadChain(db, db[LhKey].raw, <<>>, Cardinality(DOMAIN db) + 1)

\* C17: in every state reached by InitBlockchain and AddBlock calls, every non-genesis
\* block reachable from the stored tip has Height = its predecessor's Height + 1 and
\* PrevHash = its predecessor's Hash, exactly one reachable block has an empty PrevHash
\* and it has Height 0, and the stored tip is the Hash of the most recently appended
\* block: a successful AddBlock sets it to its block and no other step moves it.
C17_ChainLinkedAndTipNewest ==
  /\ [](LhKey \in DOMAIN db =>
          LET blocks == StoredWalk.blocks
          IN /\ StoredWalk.kind = "ok"
             /\ Len(blocks) >= 1
             /\ \A i \in 2..Len(blocks) :
                   /\ blocks[i].Height = blocks[i - 1].Height + 1
                   /\ blocks[i].PrevHash = blocks[i - 1].Hash
                   /\ blocks[i].PrevHash # Empty
             /\ blocks[1].PrevHash = Empty
             /\ blocks[1].Height = 0
             /\ blocks[Len(blocks)].Hash = db[LhKey].raw)
  /\ [][ (LhKey \in DOMAIN db) =>
           (IF AddBlockReturned' /\ obs' # obs
            THEN /\ db'[LhKey].raw = obs'.block.Hash
                 /\ StoredWalk'.blocks = Append(StoredWalk.blocks, obs'.block)
            ELSE db'[LhKey] = db[LhKey]) ]_vars

C17_Witness ==
  /\ AddBlockReturned
  /\ Len(StoredWalk.blocks) = 3
  /\ db[LhKey].raw = obs.block.Hash

\* C18: whatever the clock returns, also a value earlier than before, AddBlock never
\* persists a block whose Timestamp is smaller than that of the tip block it links to.
C18_TimestampsNeverDecrease ==
  [][ (AddBlockReturned' /\ obs' # obs)
        => obs'.block.Timestamp >= Deserialize(db[obs'.block.PrevHash]).Timestamp ]_vars

\* C19: on a valid chain that only successful AddBlock calls extend, a ValidateChain
\* call returns no error, also when an AddBlock call runs between its steps.
C19_ValidateChainSeesSnapshot ==
  m.stage = "returned" => m.err = NoError

RECURSIVE CertificateSum(_)
CertificateSum(blocks) ==
  IF blocks = <<>> THEN 0
  ELSE Len(Head(blocks).CertificateHashes) + CertificateSum(Tail(blocks))

\* C21: after any sequence of AddBlock calls GetStats returns, with BlockCount the number
\* of blocks reachable from the handle's tip and CertificateCount the sum of
\* len(CertificateHashes) over those blocks.
C21_GetStatsCountsReachableBlocks ==
  obs.op = "GetStats" =>
    /\ obs.stats.kind = "ok"
    /\ obs.stats.BlockCount = Len(WalkFrom(db, LastHash))
    /\ obs.stats.CertificateCount = CertificateSum(WalkFrom(db, LastHash))

\* C22: Block.VerifyCertificate(id) is true exactly when the hex SHA-256 of id is one of
\* the block's CertificateHashes: true for every ID the block was built from, false for
\* every other ID.
C22_VerifyCertificateIsMembership ==
  m.stage = "looked up" =>
    /\ m.result = (EncodeToString(Sha256(m.leaf)) \in Range(m.block.CertificateHashes))
    /\ m.result = (m.leaf \in Range(m.ids))

C22_Witness ==
  /\ m.stage = "looked up"
  /\ m.result
  /\ Len(m.ids) = 3
  /\ m.ids[1] # m.leaf
  /\ m.ids[3] = m.leaf

\* the credential hashes of a block as digests, the last one repeated when their number
\* is odd
PaddedDigests(b) ==
  LET digests == [i \in 1..Len(b.CertificateHashes) |-> DecodeString(b.CertificateHashes[i])]
  IN IF Len(digests) % 2 # 0 THEN Append(digests, digests[Len(digests)]) ELSE digests

\* C23 as stated: the MerkleRoot of a block built by NewBlock is the root NewMerkleTree
\* computes with the block's credential hashes (as hex strings or as digests) as leaf
\* values, each leaf value hashed once.
C23_RootIsBuildOverHashes ==
  m.block # NoBlock =>
    m.block.MerkleRoot \in
      { NewMerkleTree(m.block.CertificateHashes),
        NewMerkleTree([i \in 1..Len(m.block.CertificateHashes) |->
                         DecodeString(m.block.CertificateHashes[i])]) }

\* C23 amended: the MerkleRoot of a block built by NewBlock is the root of the pairing
\* over the block's credential hashes taken as the leaf digests themselves: NewMerkleTree
\* runs on the raw credential IDs and hashes each once, so the credential hashes are not
\* hashed again, and every pairing hashes the concatenation of the two child digests.
C23_RootPairsCredentialHashes ==
  m.block # NoBlock =>
    /\ m.block.MerkleRoot = ReduceNodes(PaddedDigests(m.block))
    /\ \A i \in 1..Len(m.ids) :
          DecodeString(m.block.CertificateHashes[i]) = Sha256(m.ids[i])

C23_Witness ==
  /\ m.stage = "built"
  /\ Len(m.ids) = 3
  /\ m.ids[1] # m.ids[3]
  /\ m.block.MerkleRoot = ReduceNodes(PaddedDigests(m.block))

\* C24: after any sequence of CreateUniversityIdentity and RemoveAuthorizedUniversity
\* calls, IsAuthorizedUniversity(key) is true exactly when key is the key of the identity
\* now registered under some university name; it is false before any registration, for
\* a key that was never registered, and for a key whose name was removed or re-created.
C24_AuthorizedIffRegistered ==
  m.stage = "checked" =>
    (m.result = (\E name \in DOMAIN m.registered : m.registered[name] = m.key))

C24_Witness ==
  /\ m.stage = "checked"
  /\ ~m.result
  /\ m.key \in UniversityIdentities
  /\ "harvard" \in DOMAIN m.registered
  /\ m.registered["harvard"] > m.key

\* C25: Block.Verify returns false when the Signature is empty or has an odd byte
\* length, whatever the public key; otherwise it returns what the curve verification of
\* the two halves of the Signature over CalculateHashForSigning returns.
C25_VerifyFalseOnMalformed ==
  m.stage = "verified" =>
    LET sig == m.block.Signature
        halfLen == ByteLen(sig) \div 2
    IN IF ByteLen(sig) = 0 \/ ByteLen(sig) % 2 = 1
       THEN m.verify = "false"
       ELSE (m.verify = "true")
              = EcdsaVerify(PubKey(m.key), CalculateHashForSigning(m.block),
                            TakeBytes(sig, halfLen), DropBytes(sig, halfLen))

C25_Witness ==
  /\ m.stage = "verified"
  /\ m.field = "Signature"
  /\ ByteLen(m.block.Signature) % 2 = 1
  /\ m.key = m.signer
  /\ m.verify = "false"

\* the operations of the chain, as the last operation is recorded
ChainOps == {"InitBlockchain", "ContinueBlockchain", "Close", "AddBlock", "ValidateChain",
             "GetStats"}

\* every block key of the store before the step is there after it, with the same value
BlocksKept ==
  \A key \in BlockKeys(db) : key \in DOMAIN db' /\ db'[key] = db[key]

\* C26 as stated: no operation of the chain, InitBlockchain on an existing store
\* included, changes the value under a block key or removes a block key.
C26_BlocksNeverRemoved ==
  [][ obs'.op \in ChainOps => BlocksKept ]_vars

\* C26 amended: no operation of the chain changes the value under a block key or removes
\* a block key, except InitBlockchain on a store whose tip key cannot be read: it
\* removes the whole database directory, and none of the stored blocks is left.
C26_BlocksRemovedOnlyByRecreate ==
  [][ obs'.op \in ChainOps =>
        (IF obs'.op = "InitBlockchain" /\ LhKey \notin DOMAIN db
         THEN BlockKeys(db) \cap BlockKeys(db') = {}
         ELSE BlocksKept) ]_vars

C26_Witness ==
  /\ obs.op = "InitBlockchain"
  /\ Len(tampers) = 1
  /\ tampers[1].kind = "delete lh"
  /\ Cardinality(BlockKeys(tampers[1].before)) = 2
  /\ BlockKeys(db) = {}

\* C27: ValidateChain is read-only: whether it returns an error or not, the stored
\* blocks, the stored tip key and the handle's LastHash are the same after the call as
\* before it.
C27_ValidateChainReadOnly ==
  [][ obs'.op = "ValidateChain" => (db' = db /\ LastHash' = LastHash /\ handle' = handle) ]_vars

C27_Witness ==
  /\ obs.op = "ValidateChain"
  /\ obs.err # NoError
  /\ Len(tampers) = 1
  /\ db # tampers[1].before
  /\ LhKey \in DOMAIN db
  /\ LastHash = db[LhKey].raw

\* C28: the list command prints every block of the chain once: after it has run on a
\* chain of any length, the printed lines are the blocks reached from the tip by
\* PrevHash links down to the genesis block, newest first, each exactly once.
C28_ListPrintsEveryBlock ==
  m.stage = "listed" =>
    LET walk == LoadChain(db, m.tip, <<>>, Cardinality(DOMAIN db) + 1).blocks
    IN /\ Len(m.printed) = Len(walk)
       /\ \A i \in 1..Len(walk) :
             m.printed[i].Hash = walk[Len(walk) + 1 - i].Hash

\* the values the error of one iteration of the loop is formatted with: the block index,
\* then the error of Validate, or the expected and the actual height, or the expected and
\* the actual PrevHash, or the block's timestamp and the previous block's
CheckBlockArgs(block, prevBlock, i, t) ==
  IF BlockValidate(block, t) # "nil"
  THEN [index |-> i, cause |-> BlockValidate(block, t)]
  ELSE IF block.Height # i
  THEN [index |-> i, expected |-> ToHex(i), actual |-> ToHex(block.Height)]
  ELSE IF block.PrevHash # prevBlock.Hash
  THEN [index |-> i, expected |-> prevBlock.Hash, actual |-> block.PrevHash]
  ELSE IF block.Timestamp < prevBlock.Timestamp
  THEN [index |-> i, expected |-> ToHex(prevBlock.Timestamp),
        actual |-> ToHex(block.Timestamp)]
  ELSE [cause |-> "nil"]

\* the values the error ValidateChain returns is formatted with, given the error, the
\* loaded blocks oldest first and bc.LastHash
ValidateChainArgs(err, blocks, endHash, t) ==
  IF err.kind # "error" THEN [cause |-> err.kind]
  ELSE IF err.index >= 1
  THEN CheckBlockArgs(blocks[err.index + 1], blocks[err.index], err.index, t)
  ELSE IF err.msg = "first block must be genesis block with height 0"
  THEN [actual |-> ToHex(blocks[1].Height)]
  ELSE IF err.msg = "genesis block validation failed"
  THEN [cause |-> BlockValidate(blocks[1], t)]
  ELSE IF err.msg = "LastHash mismatch"
  THEN [expected |-> blocks[Len(blocks)].Hash, actual |-> endHash]
  ELSE [cause |-> err.msg]

\* the checks of the loop that the block at index i of the walk fails, by their place in
\* the loop: 1 self-validity, 2 height, 3 PrevHash linkage, 4 timestamp
FailedChecks(blocks, i, t) ==
  (IF BlockValidate(blocks[i + 1], t) # "nil" THEN {1} ELSE {})
    \cup (IF blocks[i + 1].Height # i THEN {2} ELSE {})
    \cup (IF blocks[i + 1].PrevHash # blocks[i].Hash THEN {3} ELSE {})
    \cup (IF blocks[i + 1].Timestamp < blocks[i].Timestamp THEN {4} ELSE {})

InvalidBlocks(blocks, t) ==
  { i \in 1..(Len(blocks) - 1) : FailedChecks(blocks, i, t) # {} }

Lowest(S) == CHOOSE x \in S : \A y \in S : x <= y

CheckMessages ==
  << "block validation failed", "block has incorrect height",
     "block has incorrect PrevHash", "block timestamp is before previous block timestamp" >>

\* the genesis block of the walk passes the three checks made of it
GenesisAccepted(blocks, t) ==
  /\ blocks[1].Height = 0
  /\ Len(blocks[1].PrevHash) = 0
  /\ BlockValidate(blocks[1], t) = "nil"

\* ValidateChain has run on a chain it could load and has returned an error of its checks
ChecksFailed ==
  /\ Validated
  /\ LastHash # Empty
  /\ Walk(db, LastHash).kind = "ok"
  /\ obs.err.kind = "error"

C30_ProofForFirstMatch ==
  m.stage \in {"proved", "verified"} =>
    LET hashes == m.block.CertificateHashes
        leaves == [i \in 1..Len(hashes) |-> DecodeString(hashes[i])]
        hits == { i \in 1..Len(hashes) : hashes[i] = EncodeToString(Sha256(m.leaf)) }
    IN IF hits = {}
       THEN ~m.found /\ m.proof = NoProof
       ELSE m.found /\ m.proof = GenerateProof(leaves, Lowest(hits) - 1)

\* C31: the Merkle root commits to the ordered credential list: no other list of one or
\* more credential IDs has the MerkleRoot of the block that was built.
C31_RootCommitsToList ==
  (m.stage \in {"built", "looked up", "proved", "verified"} /\ m.ids # <<>>) =>
     \A other \in IdLists(MaxLeaves) :
        (other # <<>> /\ other # m.ids) => NewMerkleTree(other) # m.block.MerkleRoot

\* C36: VerifyProof returns a boolean for every leaf and every proof, also for a proof
\* whose Directions are fewer than its Siblings and for the empty proof, and it returns
\* false against a root the proof does not reproduce.
C36_VerifyProofTotal ==
  m.stage \in {"checked", "index out of range"} =>
     /\ m.stage = "checked"
     /\ m.result \in BOOLEAN
     /\ m.result = (VerifyProofLoop(Sha256(m.leaf), m.proof, 1) = m.block.MerkleRoot)

\* C32: AddBlock is all-or-nothing: when it returns a block, the block and the tip key
\* were written together; when it returns an error, the stored blocks, the stored tip
\* key and the handle's LastHash are what they were before the call.
C32_AddBlockAllOrNothing ==
  [][ /\ AddBlockReturned' =>
           /\ DOMAIN db' = (DOMAIN db) \cup {obs'.block.Hash}
           /\ db'[LhKey].raw = obs'.block.Hash
      /\ (obs'.op = "AddBlock" /\ obs'.outcome = "error") =>
           /\ db' = db
           /\ LastHash' = LastHash ]_vars

\* C33: whenever no AddBlock call on the handle is in progress, the handle's LastHash
\* equals the stored tip key "lh" and names a block that is in the store.
C33_LastHashIsStoredTip ==
  (\A c \in Requests : pc[c] \in {"idle", "done"}) =>
     /\ LhKey \in DOMAIN db
     /\ LastHash = db[LhKey].raw
     /\ LastHash \in BlockKeys(db)

\* C34: in every state reached by InitBlockchain and AddBlock, every block of the store
\* is stored under the key equal to its own Hash field, that Hash is CalculateHash of the
\* block, and the tip key "lh" holds a hash and is not the key of a block.
C34_BlocksStoredUnderOwnHash ==
  /\ \A key \in BlockKeys(db) :
        /\ IsGob(db[key])
        /\ Deserialize(db[key]).Hash = key
        /\ CalculateHash(Deserialize(db[key])) = key
        /\ ByteLen(key) = DigestSize
  /\ LhKey \in DOMAIN db =>
        /\ ~IsGob(db[LhKey])
        /\ db[LhKey].raw \in BlockKeys(db)
  /\ ByteLen(LhKey) # DigestSize

C34_Witness ==
  /\ AddBlockReturned
  /\ obs.block.Hash \in BlockKeys(db)
  /\ Cardinality(BlockKeys(db)) >= 2
  /\ Deserialize(db[obs.block.Hash]).Hash = obs.block.Hash

\* C35: an iterator is not restartable: once Next has returned the genesis block, a
\* further Next on that iterator returns no block, so the blocks it has returned stay as
\* they were and its position does not go back to the tip; only a new Iterator, which
\* has returned nothing yet, replays the chain.
C35_IteratorNotRestartable ==
  [][ (m.stage = "done" /\ m' # m) =>
         \/ /\ m'.stage = "panic"
            /\ m'.yielded = m.yielded
            /\ m'.CurrentHash = Empty
         \/ /\ m'.stage = "iterating"
            /\ m'.yielded = <<>>
            /\ m'.CurrentHash = LastHash ]_vars

C35_Witness ==
  /\ m.stage = "panic"
  /\ Len(m.yielded) >= 2
  /\ m.yielded[Len(m.yielded)].PrevHash = Empty
  /\ m.yielded[1].Hash = m.tip

\* C37: in the chain kept in a slice, after InitBlockchain and any number of AddBlock
\* calls, every block after the genesis block has Height one greater than the block
\* before it (so the first appended block has Height 1), LastHash is the Hash of the
\* last block, and ValidateChain returns no error.
C37_MemoryChainHeightsAndTip ==
  m.stage = "chain" =>
     /\ \A i \in 2..Len(m.Blocks) : m.Blocks[i].Height = m.Blocks[i - 1].Height + 1
     /\ m.LastHash = m.Blocks[Len(m.Blocks)].Hash
     /\ MemValidateChain(m.Blocks, m.LastHash, now) = NoError

====
